---- MODULE Spec2Model ----
(***************************************************************************)
(* Model of the dice engine of the bot (cogs/dice.py, cogs/dice_plus.py):  *)
(* parse_expr, safe_eval_arith, roll and the /roll command handler.        *)
(*                                                                         *)
(* A Python str is a sequence of one-character strings, so that the        *)
(* regular expressions, strip/lower/replace and the tokenizer of eval()    *)
(* can be modelled character by character.  Optional[X] is a sequence of   *)
(* length 0 (None) or 1 (the value).                                       *)
(***************************************************************************)
EXTENDS Integers, Sequences, FiniteSets, TLC

VARIABLES expr, secret, op, parsed, drawn, rolled, tail_val, evaluated, sent, mark_kept, all_text

\* expr       the argument of the call or command being served
\* secret     the secret flag of /roll
\* op         the operation that produced the state
\* parsed     what parse_expr returned or raised
\* drawn      the values random.randint returned, in call order
\* rolled     what roll returned or raised
\* tail_val   what the last call of safe_eval_arith returned or raised
\* evaluated  the arguments safe_eval_arith was called with, in call order
\* sent       the messages sent: interaction responses and DMs
\* mark_kept  the mark_kept argument of the last call of fmt_list (<<>>: None)
\* all_text   what fmt_list returned
dice_vars == <<expr, secret, op, parsed, drawn, rolled, tail_val, evaluated, sent, mark_kept, all_text>>

VARIABLES db, guild, tasks, views, reply, ops, sc, vs

\* db     the session of cogs/ho_select.py as stored in data/ho_sessions.json
\* guild  the Discord guild: members, nicknames, channels, categories, panel
\* tasks  the HO-select and spectate callbacks suspended at an await, by member
\* views  the ConfirmView objects created so far, in creation order
\* reply  what the last handler of cogs/ho_select.py answered
\* ops    the number of interactions received so far
\* sc     the session of cogs/session_channels.py and its last answer
\* vs     the panel of cogs/vc_setup.py, its voice channel and its category
bot_vars == <<db, guild, tasks, views, reply, ops, sc, vs>>

vars == <<dice_vars, bot_vars>>

\* the session and panel cogs have not been used
BotBlank ==
    /\ db = <<>>
    /\ guild = <<>>
    /\ tasks = <<>>
    /\ views = <<>>
    /\ reply = <<>>
    /\ ops = 0
    /\ sc = <<>>
    /\ vs = <<>>

(***************************************************************************)
(* Bounds of the model and constants of the program                        *)
(***************************************************************************)
MAX_DICE == 100

MAX_SIDES == 100000

\* longest string of the exhaustive enumeration of modifier strings
MaxTailLen == 3

\* largest number of dice of the specs handed to roll
MaxRollDice == 4

\* die faces 1..MaxFace (and the highest face) are drawn
MaxFace == 5

(***************************************************************************)
(* Characters and strings                                                  *)
(***************************************************************************)
None == <<>>

Some(x) == <<x>>

Digits == {"0", "1", "2", "3", "4", "5", "6", "7", "8", "9"}

\* str.isspace / the regex class \s, on the whitespace of the model
Whitespace == {" ", "\t", "\n"}

IsDigit(c) == c \in Digits

IsSpace(c) == c \in Whitespace

\* str.lower on one character
LowerChar(c) ==
    CASE c = "D" -> "d"
      [] c = "K" -> "k"
      [] c = "H" -> "h"
      [] c = "L" -> "l"
      [] c = "X" -> "x"
      [] OTHER -> c

lower(s) == [i \in 1..Len(s) |-> LowerChar(s[i])]

\* str.strip(): leading and trailing whitespace of every kind removed
strip(s) ==
    LET nonws == {i \in 1..Len(s) : ~IsSpace(s[i])}
    IN  IF nonws = {} THEN <<>>
        ELSE LET first == CHOOSE i \in nonws : \A j \in nonws : i <= j
                 last == CHOOSE i \in nonws : \A j \in nonws : j <= i
             IN  SubSeq(s, first, last)

\* str.replace(" ", ""): only the space character is removed
replace_space(s) == SelectSeq(s, LAMBDA c : c # " ")

\* mutant: the prefix is not looked at
startswith_any(s, c) == Len(s) >= 1

\* str.startswith with a one-character prefix
startswith(s, c) == Len(s) >= 1 /\ s[1] = c

DigitVal(c) ==
    CASE c = "0" -> 0 [] c = "1" -> 1 [] c = "2" -> 2 [] c = "3" -> 3
      [] c = "4" -> 4 [] c = "5" -> 5 [] c = "6" -> 6 [] c = "7" -> 7
      [] c = "8" -> 8 [] c = "9" -> 9

RECURSIVE int(_)
\* int() of a string of decimal digits
int(ds) ==
    IF Len(ds) = 0 THEN 0
    ELSE 10 * int(SubSeq(ds, 1, Len(ds) - 1)) + DigitVal(ds[Len(ds)])

\* the character at position i, or "" past the end
At(s, i) == IF i >= 1 /\ i <= Len(s) THEN s[i] ELSE ""

\* the position after the longest run of whitespace starting at i (\s*)
SkipWs(s, i) ==
    CHOOSE j \in i..(Len(s) + 1) :
        /\ \A k \in i..(j - 1) : IsSpace(s[k])
        /\ (j = Len(s) + 1 \/ ~IsSpace(s[j]))

\* the position after the longest run of digits starting at i (\d+ when > i)
DigitsEnd(s, i) ==
    CHOOSE j \in i..(Len(s) + 1) :
        /\ \A k \in i..(j - 1) : IsDigit(s[k])
        /\ (j = Len(s) + 1 \/ ~IsDigit(s[j]))

(***************************************************************************)
(* _DICE_RE and _ALLOWED_TAIL_RE                                           *)
(***************************************************************************)
\* \s*(.*)\s*$ matched from position p: leading whitespace (greedy), then
\* a run without a newline (greedy), then whitespace up to the end ($ also
\* matches before a final newline, which is whitespace).  The first split
\* the backtracking finds is the one with the longest \s*, then the
\* longest (.*).
TailMatch(s, p) ==
    LET R == SubSeq(s, p, Len(s))
        splits == {ab \in (0..Len(R)) \X (0..Len(R)) :
                      /\ ab[1] + ab[2] <= Len(R)
                      /\ \A k \in 1..ab[1] : IsSpace(R[k])
                      /\ \A k \in (ab[1] + 1)..(ab[1] + ab[2]) : R[k] # "\n"
                      /\ \A k \in (ab[1] + ab[2] + 1)..Len(R) : IsSpace(R[k])}
    IN  IF splits = {} THEN [ok |-> FALSE, tail |-> <<>>]
        ELSE LET best == CHOOSE ab \in splits : \A cd \in splits :
                             \/ cd[1] < ab[1]
                             \/ (cd[1] = ab[1] /\ cd[2] <= ab[2])
             IN  [ok |-> TRUE,
                  tail |-> SubSeq(R, best[1] + 1, best[1] + best[2])]

NoMatch == [ok |-> FALSE, n_s |-> None, sides_s |-> <<>>, keep_mode |-> None, keep_n_s |-> None, tail |-> <<>>]

\* _DICE_RE.match(s), re.IGNORECASE: the groups (n_s, sides_s, keep_mode,
\* keep_n_s, tail).  The digit runs are greedy; a shorter run never lets
\* the rest match (the next character would be a digit where whitespace,
\* "d" or "k" is needed, or would start the tail, which matches less
\* often with more text in front), so only the keep group has an
\* alternative: it is tried first and given up when the tail fails.
DICE_RE_match(s) ==
    LET p0 == SkipWs(s, 1)
        cEnd == DigitsEnd(s, p0)
        hasCount == cEnd > p0 /\ LowerChar(At(s, SkipWs(s, cEnd))) = "d"
        dPos == IF hasCount THEN SkipWs(s, cEnd) ELSE p0
        s0 == SkipWs(s, dPos + 1)
        sEnd == DigitsEnd(s, s0)
        k0 == SkipWs(s, sEnd)
        kd == SkipWs(s, k0 + 2)
        kEnd == DigitsEnd(s, kd)
        hasKeep == /\ LowerChar(At(s, k0)) = "k"
                   /\ LowerChar(At(s, k0 + 1)) \in {"h", "l"}
                   /\ kEnd > kd
        withKeep == TailMatch(s, kEnd)
        withoutKeep == TailMatch(s, sEnd)
    IN  IF LowerChar(At(s, dPos)) # "d" \/ sEnd = s0 THEN NoMatch
        ELSE IF hasKeep /\ withKeep.ok
        THEN [ok |-> TRUE,
              n_s |-> IF hasCount THEN Some(SubSeq(s, p0, cEnd - 1)) ELSE None,
              sides_s |-> SubSeq(s, s0, sEnd - 1),
              keep_mode |-> Some(SubSeq(s, k0, k0 + 1)),
              keep_n_s |-> Some(SubSeq(s, kd, kEnd - 1)),
              tail |-> withKeep.tail]
        ELSE IF withoutKeep.ok
        THEN [ok |-> TRUE,
              n_s |-> IF hasCount THEN Some(SubSeq(s, p0, cEnd - 1)) ELSE None,
              sides_s |-> SubSeq(s, s0, sEnd - 1),
              keep_mode |-> None,
              keep_n_s |-> None,
              tail |-> withoutKeep.tail]
        ELSE NoMatch

\* the characters of the class [0-9+\-*/().\s]
AllowedTailChars == Digits \cup {"+", "-", "*", "/", "(", ")", "."} \cup Whitespace

\* _ALLOWED_TAIL_RE.match(tail): ^[0-9+\-*/().\s]*$
ALLOWED_TAIL_RE_match(tail) == \A i \in 1..Len(tail) : tail[i] \in AllowedTailChars

(***************************************************************************)
(* parse_expr                                                              *)
(***************************************************************************)
\* the messages of the ValueErrors parse_expr raises
ERR_UNREADABLE == "unreadable expression"

ERR_COUNT == "dice count out of range"

ERR_SIDES == "sides out of range"

ERR_KEEP_DIGITS == "digits needed after kh/kl"

ERR_KEEP == "keep count out of range"

ERR_TAIL == "illegal characters in modifier"

NoSpec == [n |-> 0, sides |-> 0, keep_mode |-> None, keep_n |-> None, tail_expr |-> <<>>]

Raise(msg) == [ok |-> FALSE, err |-> msg, spec |-> NoSpec]

Return(spec) == [ok |-> TRUE, err |-> "", spec |-> spec]

\* the normalisation at the head of parse_expr: strip, lower, remove
\* spaces, "d20" -> "1d20"
Normalize(e) ==
    LET e1 == replace_space(lower(strip(e)))
    IN  IF startswith(e1, "d") THEN <<"1">> \o e1 ELSE e1

\* mutant: zero dice accepted
CountOutOfRange_zero(n) == n < 0 \/ n > MAX_DICE

CountOutOfRange(n) == n < 1 \/ n > MAX_DICE

\* mutant: a die of one side accepted
SidesOutOfRange_one(sides) == sides < 1 \/ sides > MAX_SIDES

SidesOutOfRange(sides) == sides < 2 \/ sides > MAX_SIDES

KeepOutOfRange(kn, n) == kn < 1 \/ kn > n

\* mutant: the character check skipped
TailRejected_never(tail) == FALSE

TailRejected(tail) == tail # <<>> /\ ~ALLOWED_TAIL_RE_match(tail)

\* mutant: the sides checked before the count
Validate_sides_first(n, sides, km, kn, tail) ==
    IF SidesOutOfRange(sides) THEN Raise(ERR_SIDES)
    ELSE IF CountOutOfRange(n) THEN Raise(ERR_COUNT)
    ELSE IF km # None /\ kn = None THEN Raise(ERR_KEEP_DIGITS)
    ELSE IF km # None /\ KeepOutOfRange(kn[1], n) THEN Raise(ERR_KEEP)
    ELSE IF TailRejected(tail) THEN Raise(ERR_TAIL)
    ELSE Return([n |-> n, sides |-> sides, keep_mode |-> km, keep_n |-> kn, tail_expr |-> tail])

\* the checks of parse_expr on the values read from the groups, in order
Validate(n, sides, km, kn, tail) ==
    IF CountOutOfRange(n) THEN Raise(ERR_COUNT)
    ELSE IF SidesOutOfRange(sides) THEN Raise(ERR_SIDES)
    ELSE IF km # None /\ kn = None THEN Raise(ERR_KEEP_DIGITS)
    ELSE IF km # None /\ KeepOutOfRange(kn[1], n) THEN Raise(ERR_KEEP)
    ELSE IF TailRejected(tail) THEN Raise(ERR_TAIL)
    ELSE Return([n |-> n, sides |-> sides, keep_mode |-> km, keep_n |-> kn, tail_expr |-> tail])

\* parse_expr from the match m on: groups converted, then validated
ParseMatch(m) ==
    IF ~m.ok THEN Raise(ERR_UNREADABLE)
    ELSE Validate(IF m.n_s # None THEN int(m.n_s[1]) ELSE 1,
                  int(m.sides_s),
                  IF m.keep_mode # None THEN Some(lower(m.keep_mode[1])) ELSE None,
                  IF m.keep_n_s # None THEN Some(int(m.keep_n_s[1])) ELSE None,
                  m.tail)

parse_expr(e) == ParseMatch(DICE_RE_match(Normalize(e)))

(***************************************************************************)
(* eval(expr, {"__builtins__": {}}, {}) on the strings safe_eval_arith     *)
(* hands it: Python's tokenizer, expression grammar and arithmetic.         *)
(*                                                                         *)
(* A value is an int, a float, the empty tuple or Ellipsis.  A float is held as the  *)
(* exact rational num/den; on the inputs of this model the IEEE double     *)
(* Python computes truncates to the same integer.                           *)
(***************************************************************************)
RECURSIVE GCD(_, _)
GCD(a, b) == IF b = 0 THEN a ELSE GCD(b, a % b)

Abs(x) == IF x < 0 THEN -x ELSE x

\* the rational num/den in lowest terms with a positive denominator
Rat(k, num, den) ==
    LET g == GCD(Abs(num), Abs(den))
        sgn == IF den < 0 THEN -1 ELSE 1
    IN  [k |-> k, num |-> sgn * (num \div g), den |-> sgn * (den \div g)]

IntVal(n) == [k |-> "int", num |-> n, den |-> 1]

EmptyTuple == [k |-> "tuple", num |-> 0, den |-> 1]

\* the value of the token "..."
Ellipsis == [k |-> "ellipsis", num |-> 0, den |-> 1]

IsNumber(v) == v.k \in {"int", "float"}

RECURSIVE Pow10(_)
Pow10(n) == IF n = 0 THEN 1 ELSE 10 * Pow10(n - 1)

RECURSIVE IPow(_, _)
IPow(a, n) == IF n = 0 THEN 1 ELSE a * IPow(a, n - 1)

\* tokens: a number (or "...") carries its value; every other token is
\* its text
NumTok(v) == [t |-> "num", v |-> v]

OpTok(text) == [t |-> text, v |-> IntVal(0)]

\* tokenizer error: a decimal integer literal with leading zeros
BadTok == OpTok("bad")

\* a character or a construct outside this model of eval
UnmodelledTok == OpTok("unmodelled")

\* the number literal starting at i: [tok, next]
\* decimal integer [1-9][0-9]* or 0+; point float digits "." [digits] or
\* "." digits; a lone "." is the attribute operator
ScanNumber(s, i) ==
    LET d1End == DigitsEnd(s, i)
        d2End == DigitsEnd(s, d1End + 1)
        ip == SubSeq(s, i, d1End - 1)
        fp == SubSeq(s, d1End + 1, d2End - 1)
    IN  IF At(s, d1End) = "."
        THEN IF Len(ip) = 0 /\ Len(fp) = 0
             THEN [tok |-> OpTok("."), next |-> i + 1]
             ELSE [tok |-> NumTok(Rat("float", int(ip \o fp), Pow10(Len(fp)))), next |-> d2End]
        ELSE IF Len(ip) > 1 /\ ip[1] = "0" /\ \E j \in 1..Len(ip) : ip[j] # "0"
             THEN [tok |-> BadTok, next |-> d1End]
             ELSE [tok |-> NumTok(IntVal(int(ip))), next |-> d1End]

RECURSIVE Tokenize(_, _)
\* the tokens of s from position i on (longest match: "**" and "//")
Tokenize(s, i) ==
    IF i > Len(s) THEN <<>>
    ELSE LET c == s[i]
         IN  IF c \in {" ", "\t"} THEN Tokenize(s, i + 1)
             ELSE IF c = "." /\ At(s, i + 1) = "." /\ At(s, i + 2) = "."
             THEN <<NumTok(Ellipsis)>> \o Tokenize(s, i + 3)
             ELSE IF IsDigit(c) \/ c = "."
             THEN LET r == ScanNumber(s, i) IN <<r.tok>> \o Tokenize(s, r.next)
             ELSE IF c \in {"*", "/"} /\ At(s, i + 1) = c
             THEN <<OpTok(IF c = "*" THEN "**" ELSE "//")>> \o Tokenize(s, i + 2)
             ELSE IF c \in {"+", "-", "*", "/", "(", ")"}
             THEN <<OpTok(c)>> \o Tokenize(s, i + 1)
             ELSE <<UnmodelledTok>> \o Tokenize(s, i + 1)

\* the outcome of evaluating (part of) an expression: st is "ok" or the
\* exception, v the value, pos the next token
Res(st, v, pos) == [st |-> st, v |-> v, pos |-> pos]

\* a SyntaxError is raised by compile(), before anything is evaluated
Fatal(st) == st \in {"SyntaxError", "unmodelled"}

TokAt(toks, i) == IF i >= 1 /\ i <= Len(toks) THEN toks[i].t ELSE "end"

\* a binary operator of Python on two values: [st, v]
BinOp(o, a, b) ==
    LET k == IF a.k = "float" \/ b.k = "float" THEN "float" ELSE "int"
        n == a.num * b.den
        d == a.den * b.num
    IN  IF ~IsNumber(a) \/ ~IsNumber(b)
        THEN IF \/ (o = "+" /\ a.k = "tuple" /\ b.k = "tuple")
                \/ (o = "*" /\ {a.k, b.k} = {"tuple", "int"})
             THEN [st |-> "ok", v |-> EmptyTuple]
             ELSE [st |-> "TypeError", v |-> IntVal(0)]
        ELSE CASE o = "+" -> [st |-> "ok", v |-> Rat(k, a.num * b.den + b.num * a.den, a.den * b.den)]
               [] o = "-" -> [st |-> "ok", v |-> Rat(k, a.num * b.den - b.num * a.den, a.den * b.den)]
               [] o = "*" -> [st |-> "ok", v |-> Rat(k, a.num * b.num, a.den * b.den)]
               [] o = "/" ->
                    IF b.num = 0 THEN [st |-> "ZeroDivisionError", v |-> IntVal(0)]
                    ELSE [st |-> "ok", v |-> Rat("float", n, d)]
               [] o = "//" ->
                    IF b.num = 0 THEN [st |-> "ZeroDivisionError", v |-> IntVal(0)]
                    ELSE [st |-> "ok", v |-> Rat(k, IF d < 0 THEN (-n) \div (-d) ELSE n \div d, 1)]
               [] o = "**" ->
                    IF b.den # 1 THEN [st |-> "unmodelled", v |-> IntVal(0)]
                    ELSE IF b.num >= 0
                    THEN [st |-> "ok", v |-> Rat(k, IPow(a.num, b.num), IPow(a.den, b.num))]
                    ELSE IF a.num = 0 THEN [st |-> "ZeroDivisionError", v |-> IntVal(0)]
                    ELSE [st |-> "ok", v |-> Rat("float", IPow(a.den, -b.num), IPow(a.num, -b.num))]

\* L o R, both operands evaluated left to right before the operator
Apply(o, L, R) ==
    IF Fatal(R.st) THEN R
    ELSE IF L.st # "ok" THEN Res(L.st, L.v, R.pos)
    ELSE IF R.st # "ok" THEN R
    ELSE LET x == BinOp(o, L.v, R.v) IN Res(x.st, x.v, R.pos)

\* unary + and -
Unary(o, R) ==
    IF R.st # "ok" THEN R
    ELSE IF ~IsNumber(R.v) THEN Res("TypeError", IntVal(0), R.pos)
    ELSE IF o = "-" THEN Res("ok", Rat(R.v.k, -R.v.num, R.v.den), R.pos)
    ELSE R

\* a call of a number or a tuple: ... is not callable
Call(F, A, pos) ==
    IF Fatal(A.st) THEN Res(A.st, A.v, pos)
    ELSE IF F.st # "ok" THEN Res(F.st, F.v, pos)
    ELSE IF A.st # "ok" THEN Res(A.st, A.v, pos)
    ELSE Res("TypeError", IntVal(0), pos)

RECURSIVE ParseSum(_, _), SumLoop(_, _), ParseTerm(_, _), TermLoop(_, _)
RECURSIVE ParseFactor(_, _), ParsePower(_, _), ParsePrimary(_, _), TrailerLoop(_, _), ParseAtom(_, _)
RECURSIVE CallArg(_, _, _), PowerTail(_, _)
\* mutant: one level, evaluated left to right
Prec_flat(o) == 1

\* the binding strength of Python's binary operators below "**"
Prec(o) == IF o \in {"+", "-"} THEN 1 ELSE 2

\* the operators of sum: + and -
SumOps == {o \in {"+", "-", "*", "/", "//"} : Prec(o) = 1}

\* the operators of term, which bind tighter: * / //
TermOps == {o \in {"+", "-", "*", "/", "//"} : Prec(o) = 2}

\* the ")" that closes a parenthesised expression
CloseParen(toks, inner) ==
    IF Fatal(inner.st) THEN inner
    ELSE IF TokAt(toks, inner.pos) = ")" THEN Res(inner.st, inner.v, inner.pos + 1)
    ELSE Res("SyntaxError", IntVal(0), inner.pos)

\* atom: NUMBER | "..." | "(" expression ")" | "(" ")"
ParseAtom(toks, i) ==
    LET t == TokAt(toks, i)
    IN  IF t = "unmodelled" THEN Res("unmodelled", IntVal(0), i + 1)
        ELSE IF t = "num" THEN Res("ok", toks[i].v, i + 1)
        ELSE IF t = "(" /\ TokAt(toks, i + 1) = ")" THEN Res("ok", EmptyTuple, i + 2)
        ELSE IF t = "(" THEN CloseParen(toks, ParseSum(toks, i + 1))
        ELSE Res("SyntaxError", IntVal(0), i)

\* primary: primary "(" [argument] ")" | atom
TrailerLoop(toks, F) ==
    IF Fatal(F.st) \/ TokAt(toks, F.pos) # "(" THEN F
    ELSE IF TokAt(toks, F.pos + 1) = ")"
    THEN TrailerLoop(toks, Call(F, Res("ok", EmptyTuple, F.pos + 2), F.pos + 2))
    ELSE CallArg(toks, F, ParseSum(toks, F.pos + 1))

\* the call F(A) once its argument is parsed
CallArg(toks, F, A) ==
    IF Fatal(A.st) THEN A
    ELSE IF TokAt(toks, A.pos) = ")" THEN TrailerLoop(toks, Call(F, A, A.pos + 1))
    ELSE Res("SyntaxError", IntVal(0), A.pos)

ParsePrimary(toks, i) == TrailerLoop(toks, ParseAtom(toks, i))

\* power: primary ["**" factor]
ParsePower(toks, i) == PowerTail(toks, ParsePrimary(toks, i))

PowerTail(toks, L) ==
    IF ~Fatal(L.st) /\ TokAt(toks, L.pos) = "**"
    THEN Apply("**", L, ParseFactor(toks, L.pos + 1))
    ELSE L

\* factor: ("+" | "-") factor | power
ParseFactor(toks, i) ==
    IF TokAt(toks, i) \in {"+", "-"}
    THEN Unary(TokAt(toks, i), ParseFactor(toks, i + 1))
    ELSE ParsePower(toks, i)

TermLoop(toks, L) ==
    IF ~Fatal(L.st) /\ TokAt(toks, L.pos) \in TermOps
    THEN TermLoop(toks, Apply(TokAt(toks, L.pos), L, ParseFactor(toks, L.pos + 1)))
    ELSE L

\* term: term ("*" | "/" | "//") factor | factor
ParseTerm(toks, i) == TermLoop(toks, ParseFactor(toks, i))

SumLoop(toks, L) ==
    IF ~Fatal(L.st) /\ TokAt(toks, L.pos) \in SumOps
    THEN SumLoop(toks, Apply(TokAt(toks, L.pos), L, ParseTerm(toks, L.pos + 1)))
    ELSE L

\* sum: sum ("+" | "-") term | term
ParseSum(toks, i) == SumLoop(toks, ParseTerm(toks, i))

\* eval(e): the whole string must be one expression
EvalEnd(toks, r) ==
    IF \E i \in 1..Len(toks) : toks[i].t = "unmodelled" THEN Res("unmodelled", IntVal(0), 0)
    ELSE IF Fatal(r.st) THEN r
    ELSE IF r.pos <= Len(toks) THEN Res("SyntaxError", IntVal(0), r.pos)
    ELSE r

EvalTokens(toks) == EvalEnd(toks, ParseSum(toks, 1))

eval(e) == EvalTokens(Tokenize(e, 1))

\* int(x) of a value: a float is truncated toward zero
int_of(v) ==
    IF ~IsNumber(v) THEN [st |-> "TypeError", val |-> 0]
    ELSE [st |-> "ok", val |-> IF v.num >= 0 THEN v.num \div v.den ELSE -((-v.num) \div v.den)]

(***************************************************************************)
(* safe_eval_arith                                                         *)
(***************************************************************************)
\* the string safe_eval_arith hands to eval (None when it returns 0
\* without evaluating): stripped, one leading "+" dropped
EvalArg(e) ==
    LET e1 == strip(e)
        e2 == IF startswith(e1, "+") THEN Tail(e1) ELSE e1
    IN  IF e1 = <<>> \/ e2 = <<>> THEN None ELSE Some(e2)

\* safe_eval_arith(e): [st, val], st "ok" or the exception raised
\* int(eval(...)): the exception of eval, or of int
IntOfEval(r) == IF r.st # "ok" THEN [st |-> r.st, val |-> 0] ELSE int_of(r.v)

EvalOrZero(a) == IF a = None THEN [st |-> "ok", val |-> 0] ELSE IntOfEval(eval(a[1]))

safe_eval_arith(e) == EvalOrZero(EvalArg(e))

(***************************************************************************)
(* Inputs                                                                  *)
(***************************************************************************)
\* every string over alphabet A of length at most n
AllStrings(A, n) == UNION {[1..k -> A] : k \in 0..n}

DigitChar(n) ==
    CASE n = 0 -> "0" [] n = 1 -> "1" [] n = 2 -> "2" [] n = 3 -> "3"
      [] n = 4 -> "4" [] n = 5 -> "5" [] n = 6 -> "6" [] n = 7 -> "7"
      [] n = 8 -> "8" [] n = 9 -> "9"

\* largest operand of the two-operator modifiers
MaxOperand == 3

EvalAlphabet == {"0", "1", "2", "3", "+", "-", "*", "/", "(", ")", ".", " "}

Operands == {<<DigitChar(n)>> : n \in 0..MaxOperand}

BinaryOps == {<<"+">>, <<"-">>, <<"*">>, <<"/">>}

\* a o b o c, plain and with either pair in parentheses, with and without
\* a leading sign
TwoOperatorExprs ==
    LET core == UNION {{a \o o1 \o b \o o2 \o c,
                        <<"(">> \o a \o o1 \o b \o <<")">> \o o2 \o c,
                        a \o o1 \o <<"(">> \o b \o o2 \o c \o <<")">>} :
                          <<a, o1, b, o2, c>> \in Operands \X BinaryOps \X Operands \X BinaryOps \X Operands}
    IN  {sign \o e : sign \in {<<>>, <<"+">>, <<"-">>}, e \in core}

\* the modifiers the documentation names, and ones outside its language
ExampleTails ==
    {<<>>, <<"+">>,
     <<"+", "3">>, <<"-", "1">>,
     <<"+", "3", "-", "1", "*", "2">>,
     <<"(", "1", "+", "2", ")", "*", "3">>,
     <<"1", "/", "0">>, <<"+", "1", "/", "0">>,
     <<"+", "(", "1">>, <<"+", "1", ")">>,
     <<"+", "7", "/", "2", "*", "2">>,
     <<"+", "1", ".", "5">>, <<"+", "2", "*", "*", "3">>, <<"+", "7", "/", "/", "2">>,
     <<"*", "2">>, <<"+", "0", "3">>}

EvalInputs == AllStrings(EvalAlphabet, MaxTailLen) \cup TwoOperatorExprs \cup ExampleTails

(***************************************************************************)
(* State                                                                   *)
(***************************************************************************)
NoParse == Raise("")

NoRoll == [ok |-> FALSE, err |-> "", all_rolls |-> <<>>, kept |-> <<>>, kept_sum |-> 0, total |-> 0]

NoVal == [st |-> "", val |-> 0]

\* nothing has been computed or sent yet
Blank ==
    /\ secret = FALSE
    /\ op = "init"
    /\ parsed = NoParse
    /\ drawn = <<>>
    /\ rolled = NoRoll
    /\ tail_val = NoVal
    /\ evaluated = <<>>
    /\ sent = <<>>
    /\ mark_kept = <<>>
    /\ all_text = <<>>
    /\ BotBlank

(***************************************************************************)
(* safe_eval_arith as a function of its argument                           *)
(***************************************************************************)
InitEval == expr \in EvalInputs /\ Blank

EvalStep ==
    /\ op = "init"
    /\ op' = "safe_eval_arith"
    /\ tail_val' = safe_eval_arith(expr)
    /\ evaluated' = <<expr>>
    /\ UNCHANGED <<expr, secret, parsed, drawn, rolled, sent, mark_kept, all_text>>
    /\ UNCHANGED bot_vars

SpecEval == InitEval /\ [][EvalStep]_vars

(***************************************************************************)
(* parse_expr as a function of its argument                                *)
(***************************************************************************)
\* count, "d", sides, keep suffix and modifier of the expressions parsed
CountParts ==
    {<<>>, <<"0">>, <<"1">>, <<"2">>, <<"4">>, <<"1", "0", "0">>, <<"1", "0", "1">>,
     <<"1", " ", "0">>, <<"1", "\t", "0">>, <<"2", "\t">>}

SidesParts == {<<>>, <<"1">>, <<"2">>, <<"6">>, <<"1", "0", "0", "0", "0", "0">>, <<"1", "0", "0", "0", "0", "1">>}

KeepParts ==
    {<<>>, <<"k", "h", "1">>, <<"k", "l", "2">>, <<"k", "h", "4">>, <<"k", "h", "0">>, <<"k", "l", "5">>,
     <<"k", "h">>, <<"k", "l">>, <<"K", "H", "2">>, <<"k", " ", "h", "2">>}

TailParts ==
    {<<>>, <<"+", "3">>, <<"-", "1">>, <<" ", "+", " ", "3">>, <<"+", "x">>, <<"x">>, <<"*", "2">>,
     <<"+", "1", ".", "5">>, <<"\t", "+", "3">>, <<"+", "\t", "3">>, <<"+", "\n", "3">>, <<"+", "3", "\n">>,
     <<"\t", "3">>,
     <<"+", "i", "m", "p", "o", "r", "t", " ", "o", "s">>}

ParseInputs ==
    {lead \o c \o d \o sd \o k \o t :
        lead \in {<<>>, <<" ">>}, c \in CountParts, d \in {<<"d">>, <<"D">>},
        sd \in SidesParts, k \in KeepParts, t \in TailParts}

InitParse == expr \in ParseInputs /\ Blank

ParseStep ==
    /\ op = "init"
    /\ op' = "parse_expr"
    /\ parsed' = parse_expr(expr)
    /\ UNCHANGED <<expr, secret, drawn, rolled, tail_val, evaluated, sent, mark_kept, all_text>>
    /\ UNCHANGED bot_vars

SpecParse == InitParse /\ [][ParseStep]_vars

(***************************************************************************)
(* roll                                                                    *)
(***************************************************************************)
Min(a, b) == IF a <= b THEN a ELSE b

\* mutant: faces counted from 0
DieFaces_from0(sides) == 0..(Min(sides, MaxFace) - 1)

\* the values random.randint(1, sides) can return; of a die with more
\* than MaxFace faces the faces 1..MaxFace and the highest are drawn
DieFaces(sides) == (1..Min(sides, MaxFace)) \cup {sides}

\* the outcomes of [random.randint(1, spec.sides) for _ in range(spec.n)]
Draws(spec) == [1..spec.n -> DieFaces(spec.sides)]

RECURSIVE Insert(_, _, _)
\* x put into the sorted sequence s, before the first element it precedes
Insert(s, x, desc) ==
    IF s = <<>> THEN <<x>>
    ELSE IF (desc /\ x > Head(s)) \/ (~desc /\ x < Head(s)) THEN <<x>> \o s
    ELSE <<Head(s)>> \o Insert(Tail(s), x, desc)

RECURSIVE SortFrom(_, _, _)
SortFrom(s, acc, desc) == IF s = <<>> THEN acc ELSE SortFrom(Tail(s), Insert(acc, Head(s), desc), desc)

\* mutant: the order reversed
sorted_reversed(s, desc) == SortFrom(s, <<>>, ~desc)

\* sorted(s, reverse=desc)
sorted(s, desc) == SortFrom(s, <<>>, desc)

\* mutant: one element too many
Slice_plus1(s, k) == SubSeq(s, 1, Min(k + 1, Len(s)))

\* s[:k]
Slice(s, k) == SubSeq(s, 1, Min(k, Len(s)))

RECURSIVE sum(_)
sum(s) == IF s = <<>> THEN 0 ELSE Head(s) + sum(Tail(s))

\* "if spec.keep_mode and spec.keep_n": both set, keep_n not 0
KeepActive(spec) == spec.keep_mode # None /\ spec.keep_n # None /\ spec.keep_n[1] # 0

\* the kept dice of roll
Kept(spec, all_rolls) ==
    IF KeepActive(spec)
    THEN IF spec.keep_mode[1] = <<"k", "h">>
         THEN Slice(sorted(all_rolls, TRUE), spec.keep_n[1])
         ELSE Slice(sorted(all_rolls, FALSE), spec.keep_n[1])
    ELSE all_rolls

\* mutant: a modifier that cannot be evaluated counts as 0
RollTail_swallow(spec) ==
    IF spec.tail_expr # <<>> /\ safe_eval_arith(spec.tail_expr).st = "ok"
    THEN safe_eval_arith(spec.tail_expr)
    ELSE [st |-> "ok", val |-> 0]

\* "safe_eval_arith(spec.tail_expr) if spec.tail_expr else 0"
RollTail(spec) == IF spec.tail_expr # <<>> THEN safe_eval_arith(spec.tail_expr) ELSE [st |-> "ok", val |-> 0]

\* mutant: the modifier left out of the total
Total_nomod(kept_sum, tv) == kept_sum

Total(kept_sum, tv) == kept_sum + tv

\* roll(spec) when random.randint returns draws: (all_rolls, kept,
\* kept_sum, total), or the exception of safe_eval_arith
RollResult(all_rolls, kept, kept_sum, tail_v) ==
    IF tail_v.st # "ok"
    THEN [ok |-> FALSE, err |-> tail_v.st, all_rolls |-> <<>>, kept |-> <<>>, kept_sum |-> 0, total |-> 0]
    ELSE [ok |-> TRUE, err |-> "", all_rolls |-> all_rolls, kept |-> kept, kept_sum |-> kept_sum,
          total |-> Total(kept_sum, tail_v.val)]

RollKept(spec, all_rolls, kept) == RollResult(all_rolls, kept, sum(kept), RollTail(spec))

roll(spec, draws) == RollKept(spec, draws, Kept(spec, draws))

\* the calls of safe_eval_arith roll makes
RollEvaluated(spec) == IF spec.tail_expr # <<>> THEN <<spec.tail_expr>> ELSE <<>>

RECURSIVE str(_)
\* str(n) of an int n >= 0
str(n) == IF n < 10 THEN <<DigitChar(n)>> ELSE str(n \div 10) \o <<DigitChar(n % 10)>>

(***************************************************************************)
(* fmt_list                                                                *)
(***************************************************************************)
\* the dict built by "remaining[x] = remaining.get(x, 0) + 1" over mark_kept
Remaining(kept) ==
    [v \in {kept[i] : i \in 1..Len(kept)} |-> Cardinality({i \in 1..Len(kept) : kept[i] = v})]

\* d.get(k, 0)
Get(d, k) == IF k \in DOMAIN d THEN d[k] ELSE 0

\* f"**{x}**"
Bold(x) == <<"*", "*">> \o str(x) \o <<"*", "*">>

RECURSIVE MarkLoop_blanket(_, _, _, _)
\* mutant: every die whose value is among the kept ones is marked
MarkLoop_blanket(nums, i, remaining, out) ==
    IF i > Len(nums) THEN out
    ELSE IF Get(remaining, nums[i]) > 0
    THEN MarkLoop_blanket(nums, i + 1, remaining, Append(out, Bold(nums[i])))
    ELSE MarkLoop_blanket(nums, i + 1, remaining, Append(out, str(nums[i])))

RECURSIVE MarkLoop(_, _, _, _)
\* the loop "for x in nums" from the i-th element on
MarkLoop(nums, i, remaining, out) ==
    IF i > Len(nums) THEN out
    ELSE IF Get(remaining, nums[i]) > 0
    THEN MarkLoop(nums, i + 1, [remaining EXCEPT ![nums[i]] = @ - 1], Append(out, Bold(nums[i])))
    ELSE MarkLoop(nums, i + 1, remaining, Append(out, str(nums[i])))

RECURSIVE join(_)
\* ", ".join(parts)
join(parts) ==
    IF Len(parts) = 0 THEN <<>>
    ELSE IF Len(parts) = 1 THEN parts[1]
    ELSE parts[1] \o <<",", " ">> \o join(Tail(parts))

\* fmt_list(nums, mark_kept=kept); kept = <<>> stands for None and for []
fmt_list(nums, kept) ==
    IF Len(nums) = 0 THEN <<>>
    ELSE IF Len(kept) = 0 THEN join([i \in 1..Len(nums) |-> str(nums[i])])
    ELSE join(MarkLoop(nums, 1, Remaining(kept), <<>>))

\* most dice of the lists handed to fmt_list
MaxFmtDice == 4

\* the lists hold faces 1..MaxFmtFace and the two-digit face 10
MaxFmtFace == 3

FmtFaces == (1..MaxFmtFace) \cup {10}

FmtNums == UNION {[1..n -> FmtFaces] : n \in 0..MaxFmtDice}

\* the elements of nums at the positions in idx, in the order of nums
Pick(nums, idx) ==
    LET F[i \in 0..Len(nums)] ==
            IF i = 0 THEN <<>>
            ELSE IF i \in idx THEN Append(F[i - 1], nums[i]) ELSE F[i - 1]
    IN  F[Len(nums)]

\* the kept lists for nums: its sub-multisets (<<>>: no keep mode)
FmtKept(nums) == {Pick(nums, idx) : idx \in SUBSET (1..Len(nums))}

InitFmt ==
    /\ expr = <<>>
    /\ secret = FALSE
    /\ op = "init"
    /\ parsed = NoParse
    /\ drawn \in FmtNums
    /\ rolled = NoRoll
    /\ tail_val = NoVal
    /\ evaluated = <<>>
    /\ sent = <<>>
    /\ mark_kept \in FmtKept(drawn)
    /\ all_text = <<>>
    /\ BotBlank

FmtStep ==
    /\ op = "init"
    /\ op' = "fmt_list"
    /\ all_text' = fmt_list(drawn, mark_kept)
    /\ UNCHANGED <<expr, secret, parsed, drawn, rolled, tail_val, evaluated, sent, mark_kept>>
    /\ UNCHANGED bot_vars

SpecFmt == InitFmt /\ [][FmtStep]_vars

\* the numbers of faces of the dice rolled
RollSides == {2, 6}

RollKeeps(n) == {<<>>} \cup {m \o str(k) : m \in {<<"k", "h">>, <<"k", "l">>}, k \in 1..n}

RollTails == {<<>>, <<"+">>, <<"+", "3">>, <<"-", "2", "*", "2">>, <<"+", "1", "/", "0">>}

\* the expressions whose specs are rolled
RollInputs ==
    UNION {{str(n) \o <<"d">> \o str(sd) \o k \o t : sd \in RollSides, k \in RollKeeps(n), t \in RollTails} :
              n \in 1..MaxRollDice}

InitRoll ==
    /\ expr \in RollInputs
    /\ secret = FALSE
    /\ op = "parse_expr"
    /\ parsed = parse_expr(expr)
    /\ drawn = <<>>
    /\ rolled = NoRoll
    /\ tail_val = NoVal
    /\ evaluated = <<>>
    /\ sent = <<>>
    /\ mark_kept = <<>>
    /\ all_text = <<>>
    /\ BotBlank

RollStep ==
    /\ op = "parse_expr"
    /\ parsed.ok
    /\ \E draws \in Draws(parsed.spec) :
          /\ drawn' = draws
          /\ rolled' = roll(parsed.spec, draws)
    /\ op' = "roll"
    /\ tail_val' = RollTail(parsed.spec)
    /\ evaluated' = RollEvaluated(parsed.spec)
    /\ UNCHANGED <<expr, secret, parsed, sent, mark_kept, all_text>>
    /\ UNCHANGED bot_vars

SpecRoll == InitRoll /\ [][RollStep]_vars

(***************************************************************************)
(* dice_plus.py: its own copies of parse_expr, safe_eval_arith and roll    *)
(***************************************************************************)
DP_MAX_DICE == 100

DP_MAX_SIDES == 100000

dp_Normalize(e) ==
    LET e1 == replace_space(lower(strip(e)))
    IN  IF startswith(e1, "d") THEN <<"1">> \o e1 ELSE e1

dp_Validate(n, sides, km, kn, tail) ==
    IF n < 1 \/ n > DP_MAX_DICE THEN Raise(ERR_COUNT)
    ELSE IF sides < 2 \/ sides > DP_MAX_SIDES THEN Raise(ERR_SIDES)
    ELSE IF km # None /\ kn = None THEN Raise(ERR_KEEP_DIGITS)
    ELSE IF km # None /\ (kn[1] < 1 \/ kn[1] > n) THEN Raise(ERR_KEEP)
    ELSE IF tail # <<>> /\ ~ALLOWED_TAIL_RE_match(tail) THEN Raise(ERR_TAIL)
    ELSE Return([n |-> n, sides |-> sides, keep_mode |-> km, keep_n |-> kn, tail_expr |-> tail])

dp_ParseMatch(m) ==
    IF ~m.ok THEN Raise(ERR_UNREADABLE)
    ELSE dp_Validate(IF m.n_s # None THEN int(m.n_s[1]) ELSE 1,
                     int(m.sides_s),
                     IF m.keep_mode # None THEN Some(lower(m.keep_mode[1])) ELSE None,
                     IF m.keep_n_s # None THEN Some(int(m.keep_n_s[1])) ELSE None,
                     m.tail)

dp_parse_expr(e) == dp_ParseMatch(DICE_RE_match(dp_Normalize(e)))

dp_EvalArg(e) ==
    LET e1 == strip(e)
        e2 == IF startswith(e1, "+") THEN Tail(e1) ELSE e1
    IN  IF e1 = <<>> \/ e2 = <<>> THEN None ELSE Some(e2)

dp_safe_eval_arith(e) == EvalOrZero(dp_EvalArg(e))

dp_RollTail(spec) == IF spec.tail_expr # <<>> THEN dp_safe_eval_arith(spec.tail_expr) ELSE [st |-> "ok", val |-> 0]

dp_Kept(spec, all_rolls) ==
    IF spec.keep_mode # None /\ spec.keep_n # None /\ spec.keep_n[1] # 0
    THEN IF spec.keep_mode[1] = <<"k", "h">>
         THEN Slice(sorted(all_rolls, TRUE), spec.keep_n[1])
         ELSE Slice(sorted(all_rolls, FALSE), spec.keep_n[1])
    ELSE all_rolls

dp_RollResult(all_rolls, kept, kept_sum, tail_v) ==
    IF tail_v.st # "ok"
    THEN [ok |-> FALSE, err |-> tail_v.st, all_rolls |-> <<>>, kept |-> <<>>, kept_sum |-> 0, total |-> 0]
    ELSE [ok |-> TRUE, err |-> "", all_rolls |-> all_rolls, kept |-> kept, kept_sum |-> kept_sum,
          total |-> kept_sum + tail_v.val]

dp_RollKept(spec, all_rolls, kept) == dp_RollResult(all_rolls, kept, sum(kept), dp_RollTail(spec))

dp_roll(spec, draws) == dp_RollKept(spec, draws, dp_Kept(spec, draws))

\* fmt_list of dice_plus.py
dp_fmt_list(nums, kept) ==
    IF Len(nums) = 0 THEN <<>>
    ELSE IF Len(kept) = 0 THEN join([i \in 1..Len(nums) |-> str(nums[i])])
    ELSE join(MarkLoop(nums, 1, Remaining(kept), <<>>))

(***************************************************************************)
(* The commands /roll (DiceCog.roll_cmd) and /secretroll                   *)
(* (DicePlusCog.secretroll_cmd)                                            *)
(***************************************************************************)
\* most dice of the expressions of the commands
MaxCmdDice == 2

CmdCounts == {<<>>} \cup {str(n) : n \in 0..MaxCmdDice}

CmdSides == {<<"1">>, <<"2">>, <<"6">>}

CmdKeeps == {<<>>, <<"k", "h", "1">>, <<"k", "l", "2">>, <<"k", "h", "3">>}

CmdTails == ExampleTails \cup {<<"+", "x">>, <<"+", "i", "m", "p", "o", "r", "t", " ", "o", "s">>}

\* the unsafe modifier of the documentation: 1d20+import os
CmdExamples == {<<"1", "d", "2", "0", "+", "i", "m", "p", "o", "r", "t", " ", "o", "s">>}

CmdInputs ==
    {c \o <<"d">> \o sd \o k \o t : c \in CmdCounts, sd \in CmdSides, k \in CmdKeeps, t \in CmdTails}
        \cup CmdExamples

\* mutant: the error shown to the whole channel
ErrorMsg_public(text) ==
    [to |-> "interaction", kind |-> "error", ephemeral |-> FALSE, text |-> text,
     shown_expr |-> <<>>, all_text |-> <<>>, all_rolls |-> <<>>, kept |-> <<>>, kept_sum |-> 0, tv |-> 0,
     total |-> 0]

\* interaction.response.send_message(f"❌ {e}", ephemeral=True)
ErrorMsg(text) ==
    [to |-> "interaction", kind |-> "error", ephemeral |-> TRUE, text |-> text,
     shown_expr |-> <<>>, all_text |-> <<>>, all_rolls |-> <<>>, kept |-> <<>>, kept_sum |-> 0, tv |-> 0,
     total |-> 0]

\* a message without dice: the notice that the result went to the DM
NoticeMsg(text) ==
    [to |-> "interaction", kind |-> "notice", ephemeral |-> TRUE, text |-> text,
     shown_expr |-> <<>>, all_text |-> <<>>, all_rolls |-> <<>>, kept |-> <<>>, kept_sum |-> 0, tv |-> 0,
     total |-> 0]

\* the expression shown in the embed: f"{n}d{sides}" [keep_mode keep_n] tail_expr
ShownExpr(spec) ==
    str(spec.n) \o <<"d">> \o str(spec.sides)
        \o (IF KeepActive(spec) THEN spec.keep_mode[1] \o str(spec.keep_n[1]) ELSE <<>>)
        \o spec.tail_expr

\* mutant: the embed goes to the channel of the interaction
EmbedMsg_channel(to, ephemeral, spec, r, tv, text) ==
    [to |-> "interaction", kind |-> "embed", ephemeral |-> ephemeral, text |-> "",
     shown_expr |-> ShownExpr(spec), all_text |-> text, all_rolls |-> r.all_rolls, kept |-> r.kept,
     kept_sum |-> r.kept_sum, tv |-> tv.val, total |-> r.total]

\* the embed with the dice, the kept dice, the modifier value and the total
EmbedMsg(to, ephemeral, spec, r, tv, text) ==
    [to |-> to, kind |-> "embed", ephemeral |-> ephemeral, text |-> "",
     shown_expr |-> ShownExpr(spec), all_text |-> text, all_rolls |-> r.all_rolls, kept |-> r.kept,
     kept_sum |-> r.kept_sum, tv |-> tv.val, total |-> r.total]

\* "mark_kept=kept if (spec.keep_mode and spec.keep_n) else None"
MarkKept(spec, r) == IF KeepActive(spec) THEN r.kept ELSE <<>>

DrawsOf(p) == IF p.ok THEN Draws(p.spec) ELSE {<<>>}

\* roll_cmd after "spec = parse_expr(expr)" and "roll(spec)"
RollResponded(e, sec, p, draws, r) ==
    /\ expr' = e
    /\ secret' = sec
    /\ op' = "roll_cmd"
    /\ parsed' = p
    /\ drawn' = draws
    /\ rolled' = IF p.ok THEN r ELSE NoRoll
    /\ evaluated' = IF ~p.ok THEN <<>>
                    ELSE IF ~r.ok THEN RollEvaluated(p.spec)
                    ELSE RollEvaluated(p.spec) \o RollEvaluated(p.spec)
    /\ tail_val' = IF p.ok THEN RollTail(p.spec) ELSE NoVal
    /\ sent' = IF ~p.ok THEN <<ErrorMsg(p.err)>>
               ELSE IF ~r.ok THEN <<ErrorMsg(r.err)>>
               ELSE <<EmbedMsg("interaction", sec, p.spec, r, RollTail(p.spec), fmt_list(r.all_rolls, MarkKept(p.spec, r)))>>
    /\ mark_kept' = IF p.ok /\ r.ok THEN MarkKept(p.spec, r) ELSE <<>>
    /\ all_text' = IF p.ok /\ r.ok THEN fmt_list(r.all_rolls, MarkKept(p.spec, r)) ELSE <<>>
    /\ UNCHANGED bot_vars

RollParsed(e, sec, p) == \E draws \in DrawsOf(p) : RollResponded(e, sec, p, draws, roll(p.spec, draws))

\* /roll expr [secret]
RollCmd ==
    /\ op = "idle"
    /\ \E e \in CmdInputs, sec \in BOOLEAN : RollParsed(e, sec, parse_expr(e))

\* what user.create_dm() and dm.send(embed) can do
DmOutcomes == {"sent", "Forbidden", "HTTPException"}

\* secretroll_cmd after parse_expr and roll
SecretResponded(e, p, draws, r, dm) ==
    /\ expr' = e
    /\ secret' = FALSE
    /\ op' = "secretroll_cmd"
    /\ parsed' = p
    /\ drawn' = draws
    /\ rolled' = IF p.ok THEN r ELSE NoRoll
    /\ evaluated' = IF ~p.ok THEN <<>>
                    ELSE IF ~r.ok THEN RollEvaluated(p.spec)
                    ELSE RollEvaluated(p.spec) \o RollEvaluated(p.spec)
    /\ tail_val' = IF p.ok THEN dp_RollTail(p.spec) ELSE NoVal
    /\ sent' = IF ~p.ok THEN <<ErrorMsg(p.err)>>
               ELSE IF ~r.ok THEN <<ErrorMsg(r.err)>>
               ELSE IF dm = "sent"
               THEN <<EmbedMsg("dm", FALSE, p.spec, r, dp_RollTail(p.spec), dp_fmt_list(r.all_rolls, MarkKept(p.spec, r))),
                      NoticeMsg("sent to your DM")>>
               ELSE <<ErrorMsg(dm)>>
    /\ mark_kept' = IF p.ok /\ r.ok THEN MarkKept(p.spec, r) ELSE <<>>
    /\ all_text' = IF p.ok /\ r.ok THEN dp_fmt_list(r.all_rolls, MarkKept(p.spec, r)) ELSE <<>>
    /\ UNCHANGED bot_vars

SecretParsed(e, p) ==
    \E draws \in DrawsOf(p) :
        \E dm \in (IF p.ok THEN DmOutcomes ELSE {"sent"}) :
            SecretResponded(e, p, draws, dp_roll(p.spec, draws), dm)

\* /secretroll expr
SecretRollCmd ==
    /\ op = "idle"
    /\ \E e \in CmdInputs : SecretParsed(e, dp_parse_expr(e))

\* the handler has returned; the bot waits for the next command
Idle ==
    /\ expr = <<>>
    /\ secret = FALSE
    /\ op = "idle"
    /\ parsed = NoParse
    /\ drawn = <<>>
    /\ rolled = NoRoll
    /\ tail_val = NoVal
    /\ evaluated = <<>>
    /\ sent = <<>>
    /\ mark_kept = <<>>
    /\ all_text = <<>>
    /\ BotBlank

Init == Idle

Return_ ==
    /\ op \in {"roll_cmd", "secretroll_cmd"}
    /\ expr' = <<>>
    /\ secret' = FALSE
    /\ op' = "idle"
    /\ parsed' = NoParse
    /\ drawn' = <<>>
    /\ rolled' = NoRoll
    /\ tail_val' = NoVal
    /\ evaluated' = <<>>
    /\ sent' = <<>>
    /\ mark_kept' = <<>>
    /\ all_text' = <<>>
    /\ UNCHANGED bot_vars

Next == RollCmd \/ SecretRollCmd \/ Return_

Spec == Init /\ [][Next]_vars

(***************************************************************************)
(* The modifier language of the documentation, evaluated independently of  *)
(* eval: integer literals, the binary operators + - * /, parentheses, one  *)
(* leading "+" dropped, a leading "-" negating the first term.             *)
(* div is "exact" (the quotient is kept, the final value truncated) or     *)
(* "trunc" (every quotient truncated toward zero).                         *)
(***************************************************************************)
Trunc(num, den) == IF num >= 0 THEN num \div den ELSE -((-num) \div den)

RECURSIVE RefTokenize(_, _)
RefTokenize(s, i) ==
    IF i > Len(s) THEN <<>>
    ELSE IF IsSpace(s[i]) THEN RefTokenize(s, i + 1)
    ELSE IF IsDigit(s[i])
    THEN <<[t |-> "num", n |-> int(SubSeq(s, i, DigitsEnd(s, i) - 1))]>> \o RefTokenize(s, DigitsEnd(s, i))
    ELSE IF s[i] \in {"+", "-", "*", "/", "(", ")"}
    THEN <<[t |-> s[i], n |-> 0]>> \o RefTokenize(s, i + 1)
    ELSE <<[t |-> "bad", n |-> 0]>> \o RefTokenize(s, i + 1)

RefRes(st, num, den, pos) == [st |-> st, num |-> num, den |-> den, pos |-> pos]

RefTok(toks, i) == IF i >= 1 /\ i <= Len(toks) THEN toks[i].t ELSE "end"

\* L o R on rationals
RefApply(div, o, L, R) ==
    LET q == Rat("int", L.num * R.den, L.den * R.num)
    IN  IF L.st # "ok" THEN RefRes(L.st, 0, 1, R.pos)
        ELSE IF R.st # "ok" THEN R
        ELSE CASE o = "+" -> LET x == Rat("int", L.num * R.den + R.num * L.den, L.den * R.den) IN RefRes("ok", x.num, x.den, R.pos)
               [] o = "-" -> LET x == Rat("int", L.num * R.den - R.num * L.den, L.den * R.den) IN RefRes("ok", x.num, x.den, R.pos)
               [] o = "*" -> LET x == Rat("int", L.num * R.num, L.den * R.den) IN RefRes("ok", x.num, x.den, R.pos)
               [] o = "/" ->
                    IF R.num = 0 THEN RefRes("zerodiv", 0, 1, R.pos)
                    ELSE IF div = "trunc" THEN RefRes("ok", Trunc(q.num, q.den), 1, R.pos)
                    ELSE RefRes("ok", q.num, q.den, R.pos)

RECURSIVE RefSum(_, _, _), RefSumLoop(_, _, _), RefTerm(_, _, _), RefTermLoop(_, _, _), RefAtom(_, _, _)
RefAtom(div, toks, i) ==
    IF RefTok(toks, i) = "num" THEN RefRes("ok", toks[i].n, 1, i + 1)
    ELSE IF RefTok(toks, i) = "("
    THEN LET inner == RefSum(div, toks, i + 1)
         IN  IF inner.st = "syntax" THEN inner
             ELSE IF RefTok(toks, inner.pos) = ")" THEN RefRes(inner.st, inner.num, inner.den, inner.pos + 1)
             ELSE RefRes("syntax", 0, 1, inner.pos)
    ELSE RefRes("syntax", 0, 1, i)

RefTermLoop(div, toks, L) ==
    IF L.st # "syntax" /\ RefTok(toks, L.pos) \in {"*", "/"}
    THEN LET R == RefAtom(div, toks, L.pos + 1)
         IN  IF R.st = "syntax" THEN R
             ELSE RefTermLoop(div, toks, RefApply(div, RefTok(toks, L.pos), L, R))
    ELSE L

RefTerm(div, toks, i) == RefTermLoop(div, toks, RefAtom(div, toks, i))

RefSumLoop(div, toks, L) ==
    IF L.st # "syntax" /\ RefTok(toks, L.pos) \in {"+", "-"}
    THEN LET R == RefTerm(div, toks, L.pos + 1)
         IN  IF R.st = "syntax" THEN R
             ELSE RefSumLoop(div, toks, RefApply(div, RefTok(toks, L.pos), L, R))
    ELSE L

RefSum(div, toks, i) == RefSumLoop(div, toks, RefTerm(div, toks, i))

\* the value of modifier e: [st, val], st "ok", "syntax" or "zerodiv"
RefEval(div, e) ==
    LET e1 == strip(e)
        e2 == IF startswith(e1, "+") THEN Tail(e1) ELSE e1
        toks == RefTokenize(e2, 1)
        neg == RefTok(toks, 1) = "-"
        first == RefTerm(div, toks, IF neg THEN 2 ELSE 1)
        r == RefSumLoop(div, toks, IF neg /\ first.st = "ok" THEN RefRes("ok", -first.num, first.den, first.pos) ELSE first)
    IN  IF e2 = <<>> THEN [st |-> "ok", val |-> 0]
        ELSE IF r.st = "syntax" \/ r.pos <= Len(toks) THEN [st |-> "syntax", val |-> 0]
        ELSE IF r.st # "ok" THEN [st |-> r.st, val |-> 0]
        ELSE [st |-> "ok", val |-> Trunc(r.num, r.den)]

\* an integer literal with leading zeros, which Python 3 does not accept
LeadingZeroLiteral(e) ==
    \E i \in 1..Len(e) :
        /\ e[i] = "0"
        /\ ~IsDigit(At(e, i - 1))
        /\ \E k \in i..(DigitsEnd(e, i) - 1) : e[k] # "0"

C8_TruncatingDivision ==
    op = "safe_eval_arith" =>
        ((RefEval("trunc", expr).st = "ok" /\ ~LeadingZeroLiteral(expr))
            => tail_val = [st |-> "ok", val |-> RefEval("trunc", expr).val])

(***************************************************************************)
(* Claims about parse_expr (under SpecParse)                               *)
(***************************************************************************)
\* C1: parse_expr returns a DiceSpec only when 1 <= count <= 100,
\* 2 <= sides <= 100000 and (keep mode implies 1 <= keepCount <= count); an
\* input whose count, sides or keep count is outside these bounds is
\* rejected with the range error of the first of them that is out of
\* range, e.g. 0d6, 101d6 (count) and 1d1, 1d100001 (sides).
C1_RangeChecked ==
    op = "parse_expr" =>
        LET m == DICE_RE_match(Normalize(expr))
            count == IF m.n_s # None THEN int(m.n_s[1]) ELSE 1
            sides == int(m.sides_s)
            countOk == count >= 1 /\ count <= 100
            sidesOk == sides >= 2 /\ sides <= 100000
            keepOk == m.keep_n_s = None \/ (int(m.keep_n_s[1]) >= 1 /\ int(m.keep_n_s[1]) <= count)
        IN  /\ parsed.ok =>
                /\ parsed.spec.n >= 1 /\ parsed.spec.n <= 100
                /\ parsed.spec.sides >= 2 /\ parsed.spec.sides <= 100000
                /\ parsed.spec.keep_mode # None =>
                      /\ parsed.spec.keep_n # None
                      /\ parsed.spec.keep_n[1] >= 1
                      /\ parsed.spec.keep_n[1] <= parsed.spec.n
            /\ (m.ok /\ ~countOk) => parsed = Raise(ERR_COUNT)
            /\ (m.ok /\ countOk /\ ~sidesOk) => parsed = Raise(ERR_SIDES)
            /\ (m.ok /\ countOk /\ sidesOk /\ ~keepOk) => parsed = Raise(ERR_KEEP)
            /\ expr \in {<<"0", "d", "6">>, <<"1", "0", "1", "d", "6">>} => parsed = Raise(ERR_COUNT)
            /\ expr \in {<<"1", "d", "1">>, <<"1", "d", "1", "0", "0", "0", "0", "1">>} => parsed = Raise(ERR_SIDES)

\* a count above MAX_DICE has been rejected
C1_Witness ==
    /\ op = "parse_expr"
    /\ expr = <<"1", "0", "1", "d", "6">>
    /\ parsed = Raise(ERR_COUNT)

(***************************************************************************)
(* Claims about roll (under SpecRoll)                                      *)
(***************************************************************************)
\* how often v occurs in s
Count(s, v) == Cardinality({i \in 1..Len(s) : s[i] = v})

\* the sum of s, by index
SumOf(s) ==
    LET f[i \in 0..Len(s)] == IF i = 0 THEN 0 ELSE f[i - 1] + s[i]
    IN  f[Len(s)]

\* the values some dropped die shows: rolled more often than kept
Dropped(all, kept) == {v \in {all[i] : i \in 1..Len(all)} : Count(all, v) > Count(kept, v)}

KeepSpec == parsed.spec.keep_mode # None

\* C3: for every keep-mode spec and every sequence of dice, roll returns
\* exactly keepCount kept rolls, and they are a sub-multiset of allRolls.
C3_KeepInvariant ==
    (op = "roll" /\ rolled.ok /\ KeepSpec) =>
        /\ Len(rolled.kept) = parsed.spec.keep_n[1]
        /\ \A i \in 1..Len(rolled.kept) :
              Count(rolled.kept, rolled.kept[i]) <= Count(rolled.all_rolls, rolled.kept[i])

\* dice have been dropped: fewer are kept than rolled, two of them equal
C3_Witness ==
    /\ op = "roll" /\ rolled.ok /\ KeepSpec
    /\ Len(rolled.kept) = 2
    /\ Len(rolled.all_rolls) = 3
    /\ rolled.kept[1] = rolled.kept[2]

\* C4: keep-highest keeps the keepCount largest dice (every dropped die <=
\* every kept die), keep-lowest the keepCount smallest (every dropped die
\* >= every kept die); 4d6kh3 with rolls 3,6,2,6 keeps 6,6,3, sum 15.
C4_KeepsExtremes ==
    (op = "roll" /\ rolled.ok /\ KeepSpec) =>
        /\ parsed.spec.keep_mode[1] = <<"k", "h">> =>
              \A d \in Dropped(rolled.all_rolls, rolled.kept) :
                  \A i \in 1..Len(rolled.kept) : d <= rolled.kept[i]
        /\ parsed.spec.keep_mode[1] = <<"k", "l">> =>
              \A d \in Dropped(rolled.all_rolls, rolled.kept) :
                  \A i \in 1..Len(rolled.kept) : d >= rolled.kept[i]
        /\ (expr = <<"4", "d", "6", "k", "h", "3">> /\ drawn = <<3, 6, 2, 6>>) =>
              (rolled.kept = <<6, 6, 3>> /\ rolled.kept_sum = 15)

\* 4d6kh3 has been rolled as 3,6,2,6
C4_Witness ==
    /\ op = "roll" /\ rolled.ok
    /\ expr = <<"4", "d", "6", "k", "h", "3">>
    /\ drawn = <<3, 6, 2, 6>>
    /\ rolled.kept_sum = 15

\* C5: roll's total is sum(keptRolls) + modifierValue, keptRolls being
\* allRolls in the same order without a keep mode and modifierValue being 0
\* for the empty modifier and for a lone "+"; 2d6+3 with rolls 4,5 gives
\* keptSum 9, modifierValue 3, total 12.
C5_Total ==
    (op = "roll" /\ rolled.ok) =>
        /\ rolled.kept_sum = SumOf(rolled.kept)
        /\ tail_val.st = "ok"
        /\ rolled.total = SumOf(rolled.kept) + tail_val.val
        /\ ~KeepSpec => rolled.kept = rolled.all_rolls
        /\ parsed.spec.tail_expr \in {<<>>, <<"+">>} => tail_val.val = 0
        /\ (expr = <<"2", "d", "6", "+", "3">> /\ drawn = <<4, 5>>) =>
              (rolled.kept_sum = 9 /\ tail_val.val = 3 /\ rolled.total = 12)

\* 2d6+3 has been rolled as 4,5
C5_Witness ==
    /\ op = "roll" /\ rolled.ok
    /\ expr = <<"2", "d", "6", "+", "3">>
    /\ drawn = <<4, 5>>
    /\ rolled.total = 12

\* C6: allRolls has exactly spec.count entries, in draw order, each an
\* integer in [1, spec.sides].
C6_AllRolls ==
    (op = "roll" /\ rolled.ok) =>
        /\ Len(rolled.all_rolls) = parsed.spec.n
        /\ rolled.all_rolls = drawn
        /\ \A i \in 1..Len(rolled.all_rolls) :
              rolled.all_rolls[i] >= 1 /\ rolled.all_rolls[i] <= parsed.spec.sides

\* several dice have been rolled, not in sorted order, the highest face among them
C6_Witness ==
    /\ op = "roll" /\ rolled.ok
    /\ parsed.spec.n = 3
    /\ rolled.all_rolls = <<6, 1, 2>>

(***************************************************************************)
(* Claims about the commands (under Spec)                                  *)
(***************************************************************************)
\* the characters 0-9 + - * / ( ) . and whitespace
C2_AllowedChars ==
    {"0", "1", "2", "3", "4", "5", "6", "7", "8", "9", "+", "-", "*", "/", "(", ")", ".", " ", "\t", "\n"}

\* C2: on every path of /roll and /secretroll, safe_eval_arith is called
\* only with the modifier of a spec parse_expr returned, all of whose
\* characters are allowed; 1d20+import os is rejected by parse_expr and
\* nothing is evaluated.
C2_EvalOnlyChecked ==
    /\ \A i \in 1..Len(evaluated) :
          /\ parsed.ok
          /\ evaluated[i] = parsed.spec.tail_expr
          /\ \A j \in 1..Len(evaluated[i]) : evaluated[i][j] \in C2_AllowedChars
    /\ (op \in {"roll_cmd", "secretroll_cmd"} /\ \E j \in 1..Len(expr) : expr[j] \notin C2_AllowedChars \cup {"d", "k", "h", "l", "D", "K", "H", "L"})
          => (~parsed.ok /\ evaluated = <<>>)
    /\ (op \in {"roll_cmd", "secretroll_cmd"} /\ expr \in CmdExamples)
          => (parsed = Raise(ERR_TAIL) /\ evaluated = <<>>)

\* the unsafe modifier has been rejected
C2_Witness ==
    /\ op = "roll_cmd"
    /\ expr \in CmdExamples
    /\ parsed = Raise(ERR_TAIL)
    /\ evaluated = <<>>

\* text t occurs in string e
Contains(e, t) == \E i \in 1..(Len(e) - Len(t) + 1) : SubSeq(e, i, i + Len(t) - 1) = t

NoEmbed == \A i \in 1..Len(sent) : sent[i].kind # "embed"

\* C9: a modifier with a floating-point literal (a ".") or an operator
\* other than + - * / (such as ** or //) is rejected with an error instead
\* of producing a value.
C9_OnlyIntegerArithmetic ==
    (/\ op \in {"roll_cmd", "secretroll_cmd"}
     /\ \/ Contains(expr, <<".">>)
        \/ Contains(expr, <<"*", "*">>)
        \/ Contains(expr, <<"/", "/">>))
        => (NoEmbed /\ ~(parsed.ok /\ rolled.ok))

Unbalanced(e) ==
    LET depth[i \in 0..Len(e)] ==
            IF i = 0 THEN 0
            ELSE depth[i - 1] + (IF e[i] = "(" THEN 1 ELSE IF e[i] = ")" THEN -1 ELSE 0)
    IN  depth[Len(e)] # 0 \/ \E i \in 1..Len(e) : depth[i] < 0

\* C10: a modifier of allowed characters that divides by zero or has
\* unbalanced parentheses makes roll fail with an evaluation error: no roll
\* result is returned and the only message is the ephemeral error.
C10_InvalidModifierFails ==
    (/\ op \in {"roll_cmd", "secretroll_cmd"}
     /\ parsed.ok
     /\ \/ Unbalanced(parsed.spec.tail_expr)
        \/ RefEval("exact", parsed.spec.tail_expr).st = "zerodiv")
        => /\ ~rolled.ok
           /\ rolled.err \in {"ZeroDivisionError", "SyntaxError"}
           /\ rolled.all_rolls = <<>> /\ rolled.kept = <<>>
           /\ sent = <<ErrorMsg(rolled.err)>>

\* a division by zero has been answered with the error, after the dice were drawn
C10_Witness ==
    /\ op = "roll_cmd"
    /\ parsed.ok
    /\ parsed.spec.tail_expr = <<"+", "1", "/", "0">>
    /\ Len(drawn) = 2
    /\ sent = <<ErrorMsg("ZeroDivisionError")>>

(***************************************************************************)
(* Claims about the failures of parse_expr (under SpecParse)               *)
(***************************************************************************)
\* e is [count] d sides kh|kl: a keep suffix with no number after it
BareKeep(e) ==
    /\ Len(e) >= 4
    /\ LowerChar(e[Len(e) - 1]) = "k"
    /\ LowerChar(e[Len(e)]) \in {"h", "l"}
    /\ \E i \in 1..(Len(e) - 3) :
          /\ LowerChar(e[i]) = "d"
          /\ \A j \in 1..(i - 1) : e[j] \in Digits
          /\ \A j \in (i + 1)..(Len(e) - 2) : e[j] \in Digits

\* C11: a keep suffix with no number after it (4d6kh, 4d6kl) is rejected
\* with the unreadable-expression error of a pattern-match failure.
C11_BareKeepUnreadable ==
    (op = "parse_expr" /\ BareKeep(expr)) => parsed = Raise(ERR_UNREADABLE)

\* C12: parse_expr checks the pattern, then the count, then the sides,
\* then the keep count, then the modifier characters; the failures are
\* distinct and an input that violates several checks gets the failure of
\* the first of them in this order.
C12_CheckOrder ==
    /\ Cardinality({ERR_UNREADABLE, ERR_COUNT, ERR_SIDES, ERR_KEEP, ERR_TAIL}) = 5
    /\ op = "parse_expr" =>
        LET m == DICE_RE_match(Normalize(expr))
            count == IF m.n_s # None THEN int(m.n_s[1]) ELSE 1
            sides == int(m.sides_s)
            badPattern == ~m.ok
            badCount == count < 1 \/ count > 100
            badSides == sides < 2 \/ sides > 100000
            badKeep == m.keep_n_s # None /\ (int(m.keep_n_s[1]) < 1 \/ int(m.keep_n_s[1]) > count)
            badTail == \E i \in 1..Len(m.tail) : m.tail[i] \notin C2_AllowedChars
        IN  /\ parsed = IF badPattern THEN Raise(ERR_UNREADABLE)
                        ELSE IF badCount THEN Raise(ERR_COUNT)
                        ELSE IF badSides THEN Raise(ERR_SIDES)
                        ELSE IF badKeep THEN Raise(ERR_KEEP)
                        ELSE IF badTail THEN Raise(ERR_TAIL)
                        ELSE parsed
            /\ parsed.ok <=> ~(badPattern \/ badCount \/ badSides \/ badKeep \/ badTail)
            /\ expr = <<"0", "d", "k", "h", "0", "x">> => parsed = Raise(ERR_UNREADABLE)
            /\ expr = <<"0", "d", "1", "k", "h", "0", "x">> => parsed = Raise(ERR_COUNT)
            /\ expr = <<"1", "d", "1", "k", "h", "0", "x">> => parsed = Raise(ERR_SIDES)
            /\ expr = <<"1", "d", "6", "k", "h", "0", "x">> => parsed = Raise(ERR_KEEP)
            /\ expr = <<"1", "d", "6", "k", "h", "1", "x">> => parsed = Raise(ERR_TAIL)

\* count, sides, keep count and modifier are all bad: the count is reported
C12_Witness ==
    /\ op = "parse_expr"
    /\ expr = <<"0", "d", "1", "k", "h", "0", "x">>
    /\ parsed = Raise(ERR_COUNT)

\* C13: for every DiceSpec parse_expr returns, parsing the expression
\* shown in the embed, {count}d{sides}[kh|kl{keepCount}]{modifier}, gives
\* an equal DiceSpec.
C13_RoundTrip ==
    (op = "parse_expr" /\ parsed.ok) => parse_expr(ShownExpr(parsed.spec)) = parsed

\* e in lower case and without its whitespace
Squeeze(e) == SelectSeq(lower(e), LAMBDA c : c \notin {" ", "\t", "\n"})

\* C14: the outcome of parse_expr does not depend on letter case or on
\* whitespace of any kind anywhere in the input: it is the outcome for the
\* input in lower case with all whitespace removed.
C14_CaseAndSpaceInsensitive ==
    op = "parse_expr" => parsed = parse_expr(Squeeze(expr))

\* C15: an omitted count is 1: parse_expr("d" + rest) is what
\* parse_expr("1d" + rest) is, DiceSpec or failure.
C15_CountDefaultsToOne ==
    (op = "parse_expr" /\ Len(expr) >= 1 /\ expr[1] = "d") =>
        /\ parsed = parse_expr(<<"1">> \o expr)
        /\ parsed.ok => parsed.spec.n = 1
        /\ parsed.err # ERR_COUNT

\* d6kh1+3 has been parsed as one die
C15_Witness ==
    /\ op = "parse_expr"
    /\ expr = <<"d", "6", "k", "h", "1", "+", "3">>
    /\ parsed.ok
    /\ parsed.spec.n = 1
    /\ parsed.spec.keep_n = <<1>>

(***************************************************************************)
(* Claims about the commands (under Spec), continued                       *)
(***************************************************************************)
\* t is "*" followed by a number
TimesNumber(t) ==
    /\ Len(t) >= 2
    /\ t[1] = "*"
    /\ \A i \in 2..Len(t) : t[i] \in Digits

\* C16: /roll answers an expression NdM*X (2d6*2) with a roll result, as
\* it answers NdM+K, not with an error.
C16_TimesAccepted ==
    (/\ op = "roll_cmd"
     /\ parsed.ok
     /\ parsed.spec.keep_mode = None
     /\ TimesNumber(parsed.spec.tail_expr))
        => /\ rolled.ok
           /\ Len(sent) = 1
           /\ sent[1].kind = "embed"

(***************************************************************************)
(* Claims about fmt_list (under SpecFmt)                                   *)
(***************************************************************************)
\* the position of the first "," of t, or Len(t) + 1
FirstComma(t) ==
    IF \E i \in 1..Len(t) : t[i] = ","
    THEN CHOOSE i \in 1..Len(t) : t[i] = "," /\ \A j \in 1..(i - 1) : t[j] # ","
    ELSE Len(t) + 1

\* one entry of the text: its number, and whether it is wrapped in ** **
EntryOf(h) ==
    [val |-> int(SelectSeq(h, LAMBDA c : c \in Digits)),
     flagged |-> Len(h) >= 5 /\ SubSeq(h, 1, 2) = <<"*", "*">> /\ SubSeq(h, Len(h) - 1, Len(h)) = <<"*", "*">>]

RECURSIVE EntriesOf(_)
\* the entries of a text "a, b, c"
EntriesOf(t) ==
    IF Len(t) = 0 THEN <<>>
    ELSE <<EntryOf(SubSeq(t, 1, FirstComma(t) - 1))>> \o EntriesOf(SubSeq(t, FirstComma(t) + 2, Len(t)))

\* C17: given the rolled values and a non-empty kept list that is a
\* sub-multiset of them, fmt_list flags exactly len(kept) entries, each
\* value as often as it occurs in kept, at the earliest positions of that
\* value; the order and the values of the rolled list are unchanged.
C17_MultisetHighlight ==
    (op = "fmt_list" /\ mark_kept # <<>>) =>
        LET E == EntriesOf(all_text)
        IN  /\ Len(E) = Len(drawn)
            /\ \A i \in 1..Len(E) : E[i].val = drawn[i]
            /\ Cardinality({i \in 1..Len(E) : E[i].flagged}) = Len(mark_kept)
            /\ \A v \in FmtFaces :
                  Cardinality({i \in 1..Len(E) : E[i].flagged /\ E[i].val = v}) = Count(mark_kept, v)
            /\ \A i \in 1..Len(E) : E[i].flagged =>
                  \A j \in 1..(i - 1) : E[j].val = E[i].val => E[j].flagged

\* two of three equal dice are kept: the first two are marked
C17_Witness ==
    /\ op = "fmt_list"
    /\ drawn = <<3, 1, 3, 3>>
    /\ mark_kept = <<3, 3>>
    /\ all_text = <<"*", "*", "3", "*", "*", ",", " ", "1", ",", " ", "*", "*", "3", "*", "*", ",", " ", "3">>

(***************************************************************************)
(* Claims about the replies of the commands (under Spec)                   *)
(***************************************************************************)
\* message m shows no dice: no rolls, kept dice, subtotal or total
NoDice(m) ==
    /\ m.all_rolls = <<>>
    /\ m.kept = <<>>
    /\ m.all_text = <<>>
    /\ m.shown_expr = <<>>
    /\ m.kept_sum = 0 /\ m.tv = 0 /\ m.total = 0

\* C18: whenever parsing or rolling fails for /roll or /secretroll, exactly
\* one message is sent: an ephemeral error reply with the failure text and
\* no dice; no embed goes to the channel or to a DM, whatever secret is.
C18_NoPartialResults ==
    (op \in {"roll_cmd", "secretroll_cmd"} /\ (~parsed.ok \/ ~rolled.ok)) =>
        /\ Len(sent) = 1
        /\ sent[1].kind = "error"
        /\ sent[1].to = "interaction"
        /\ sent[1].ephemeral
        /\ sent[1].text = (IF ~parsed.ok THEN parsed.err ELSE rolled.err)
        /\ sent[1].text # ""
        /\ NoDice(sent[1])

\* a public /roll has drawn its dice and failed on the modifier
C18_Witness ==
    /\ op = "roll_cmd"
    /\ secret = FALSE
    /\ parsed.ok
    /\ ~rolled.ok
    /\ Len(drawn) = 2
    /\ Len(sent) = 1
    /\ sent[1].ephemeral

\* C19: /secretroll sends the roll embed at most once and only to the
\* requester's DM; every reply in the server is ephemeral and shows no
\* dice; when the DM cannot be sent, the only message is an ephemeral
\* failure notice and the result is sent nowhere.
C19_SecretOnlyByDM ==
    op = "secretroll_cmd" =>
        /\ Cardinality({i \in 1..Len(sent) : sent[i].kind = "embed"}) <= 1
        /\ \A i \in 1..Len(sent) :
              /\ sent[i].kind = "embed" => sent[i].to = "dm"
              /\ sent[i].to = "interaction" =>
                    (sent[i].ephemeral /\ sent[i].kind # "embed" /\ NoDice(sent[i]))
        /\ (parsed.ok /\ rolled.ok) =>
              \/ /\ Len(sent) = 2
                 /\ sent[1].to = "dm" /\ sent[1].kind = "embed"
                 /\ sent[2].to = "interaction" /\ sent[2].kind = "notice"
              \/ /\ Len(sent) = 1
                 /\ sent[1].to = "interaction" /\ sent[1].kind = "error"
                 /\ sent[1].text \in {"Forbidden", "HTTPException"}

\* the DM was refused after a successful roll
C19_Witness ==
    /\ op = "secretroll_cmd"
    /\ parsed.ok
    /\ rolled.ok
    /\ Len(sent) = 1
    /\ sent[1].text = "Forbidden"
    /\ sent[1].ephemeral

\* C20: dice_plus.parse_expr, roll and safe_eval_arith give what
\* dice.parse_expr, roll and safe_eval_arith give: the same DiceSpec or
\* failure, and for the same dice the same rolls, kept rolls, kept sum and
\* total or the same failure.
C20_SameGrammar ==
    /\ op = "roll_cmd" =>
          /\ parsed = dp_parse_expr(expr)
          /\ parsed.ok => (rolled = dp_roll(parsed.spec, drawn) /\ tail_val = dp_RollTail(parsed.spec))
    /\ op = "secretroll_cmd" =>
          /\ parsed = parse_expr(expr)
          /\ parsed.ok => (rolled = roll(parsed.spec, drawn) /\ tail_val = RollTail(parsed.spec))

\* /secretroll has kept the higher of two dice and added the modifier
C20_Witness ==
    /\ op = "secretroll_cmd"
    /\ expr = <<"2", "d", "6", "k", "h", "1", "+", "3">>
    /\ drawn = <<2, 6>>
    /\ rolled.ok
    /\ rolled.total = 9

(***************************************************************************)
(* cogs/session_channels.py: the join panel of a session                   *)
(*                                                                         *)
(* add_player, remove_player and the body of lock up to save_session run   *)
(* without an await between get_session and save_session, so each handler  *)
(* is one step on the stored session.                                      *)
(***************************************************************************)
\* number of guild members that press buttons
MaxMembers == 3

Members == 1..MaxMembers

\* the member that ran /session_create, /setup or !setup
gm_id == CHOOSE u \in Members : \A v \in Members : u <= v

In(x, s) == \E i \in 1..Len(s) : s[i] = x

\* list.remove(x): the first occurrence removed
Remove(s, x) ==
    LET i == CHOOSE k \in 1..Len(s) : s[k] = x /\ \A j \in 1..(k - 1) : s[j] # x
    IN  SubSeq(s, 1, i - 1) \o SubSeq(s, i + 1, Len(s))

MSG_LOCKED == "join_locked"

MSG_ALREADY == "already_joined"

MSG_JOINED == "joined"

MSG_NOT_JOINED == "not_joined"

MSG_LEFT == "left"

MSG_GM_ONLY == "gm_only"

\* mutant: the lock is not looked at
JoinLocked_never(s) == FALSE

\* if s.get("locked")
JoinLocked(s) == s.locked

\* add_player: (ok, msg) and the session as saved
add_player(s, user_id) ==
    IF JoinLocked(s) THEN [ok |-> FALSE, msg |-> MSG_LOCKED, s |-> s]
    ELSE IF In(user_id, s.players) THEN [ok |-> FALSE, msg |-> MSG_ALREADY, s |-> s]
    ELSE [ok |-> TRUE, msg |-> MSG_JOINED, s |-> [s EXCEPT !.players = Append(@, user_id)]]

\* remove_player: (ok, msg) and the session as saved
remove_player(s, user_id) ==
    IF ~In(user_id, s.players) THEN [ok |-> FALSE, msg |-> MSG_NOT_JOINED, s |-> s]
    ELSE [ok |-> TRUE, msg |-> MSG_LEFT, s |-> [s EXCEPT !.players = Remove(@, user_id)]]

\* the stored session after the handler op of user on member, and its answer
ScAnswer(o, user, member, r) ==
    [players |-> r.s.players, locked |-> r.s.locked, gm_id |-> r.s.gm_id,
     op |-> o, user |-> user, member |-> member, ok |-> r.ok, msg |-> r.msg]

\* the stored session, as get_session returns it
ScSession == [players |-> sc.players, locked |-> sc.locked, gm_id |-> sc.gm_id]

ScIdle == UNCHANGED dice_vars /\ UNCHANGED <<db, guild, tasks, views, reply, ops, vs>>

\* the join button
sc_join(u) == sc' = ScAnswer("join", u, u, add_player(ScSession, u)) /\ ScIdle

\* the leave button
sc_leave(u) == sc' = ScAnswer("leave", u, u, remove_player(ScSession, u)) /\ ScIdle

\* the lock/unlock button
sc_lock(u) ==
    /\ sc' = IF u # sc.gm_id
             THEN ScAnswer("lock", u, u, [ok |-> FALSE, msg |-> MSG_GM_ONLY, s |-> ScSession])
             ELSE ScAnswer("lock", u, u,
                           [ok |-> TRUE, msg |-> IF ~sc.locked THEN "lock_on" ELSE "lock_off",
                            s |-> [ScSession EXCEPT !.locked = ~sc.locked]])
    /\ ScIdle

\* /session_add session_id member
session_add(u, m) ==
    /\ sc' = IF u # sc.gm_id
             THEN ScAnswer("session_add", u, m, [ok |-> FALSE, msg |-> MSG_GM_ONLY, s |-> ScSession])
             ELSE ScAnswer("session_add", u, m, add_player(ScSession, m))
    /\ ScIdle

\* /session_remove session_id member
session_remove(u, m) ==
    /\ sc' = IF u # sc.gm_id
             THEN ScAnswer("session_remove", u, m, [ok |-> FALSE, msg |-> MSG_GM_ONLY, s |-> ScSession])
             ELSE ScAnswer("session_remove", u, m, remove_player(ScSession, m))
    /\ ScIdle

\* the dice commands are not running
DiceIdle ==
    /\ expr = <<>>
    /\ secret = FALSE
    /\ op = "idle"
    /\ parsed = NoParse
    /\ drawn = <<>>
    /\ rolled = NoRoll
    /\ tail_val = NoVal
    /\ evaluated = <<>>
    /\ sent = <<>>
    /\ mark_kept = <<>>
    /\ all_text = <<>>

\* /session_create by gm_id has answered
InitSess ==
    /\ DiceIdle
    /\ db = <<>> /\ guild = <<>> /\ tasks = <<>> /\ views = <<>> /\ reply = <<>> /\ ops = 0 /\ vs = <<>>
    /\ sc = [players |-> <<>>, locked |-> FALSE, gm_id |-> gm_id,
             op |-> "session_create", user |-> gm_id, member |-> gm_id, ok |-> TRUE, msg |-> ""]

JoinButton == \E u \in Members : sc_join(u)

LeaveButton == \E u \in Members : sc_leave(u)

LockButton == \E u \in Members : sc_lock(u)

SessionAddCmd == \E u, m \in Members : session_add(u, m)

SessionRemoveCmd == \E u, m \in Members : session_remove(u, m)

NextSess == JoinButton \/ LeaveButton \/ LockButton \/ SessionAddCmd \/ SessionRemoveCmd

SpecSess == InitSess /\ [][NextSess]_vars

\* C27: while the session is locked, the join button and the GM's
\* /session_add leave the players list as it was and answer that joining is
\* locked; the leave button and the GM's /session_remove still take a player
\* out of the list while locked; each press of the lock button by the GM
\* negates locked, so two presses restore it.
C27_LockBlocksJoins ==
    [][/\ (sc.locked /\ (JoinButton \/ (\E m \in Members : session_add(sc.gm_id, m))))
            => (sc'.players = sc.players /\ sc'.msg = MSG_LOCKED /\ sc'.locked)
       /\ \A u \in Members :
            (sc.locked /\ In(u, sc.players) /\ (sc_leave(u) \/ session_remove(sc.gm_id, u)))
                => (~In(u, sc'.players) /\ Len(sc'.players) = Len(sc.players) - 1 /\ sc'.msg = MSG_LEFT)
       /\ sc_lock(sc.gm_id) => (sc'.locked = ~sc.locked /\ sc'.players = sc.players)]_vars

\* a member was refused by the join button of a locked session that has players
C27_Witness ==
    /\ sc # <<>>
    /\ sc.op = "join" /\ sc.msg = MSG_LOCKED /\ sc.locked /\ sc.players # <<>>
    /\ ~In(sc.user, sc.players)

(***************************************************************************)
(* Python dicts: functions whose domain is the set of keys                 *)
(***************************************************************************)
\* d[k] = v
Put(d, k, v) == [x \in (DOMAIN d) \cup {k} |-> IF x = k THEN v ELSE d[x]]

\* del d[k] / d.pop(k, None)
Del(d, k) == [x \in (DOMAIN d) \ {k} |-> d[x]]

\* the values of d
Values(d) == {d[k] : k \in DOMAIN d}

(***************************************************************************)
(* cogs/vc_setup.py: the individual-channel button of the !setup panel     *)
(***************************************************************************)
SAFE_NAME_MAX == 90

\* the letters of the display names of the model
NameLetters == {"D", "K", "H", "L", "d", "k", "h", "l"}

\* a character the second re.sub of safe_name keeps: \w or "-"
IsNameChar(c) == c \in NameLetters \cup Digits \cup {"_", "-"}

RECURSIVE SpacesToHyphen(_)
\* re.sub(r"\s+", "-", s)
SpacesToHyphen(s) ==
    IF s = <<>> THEN <<>>
    ELSE IF IsSpace(Head(s)) THEN <<"-">> \o SpacesToHyphen(SubSeq(s, SkipWs(s, 1), Len(s)))
    ELSE <<Head(s)>> \o SpacesToHyphen(Tail(s))

RECURSIVE CollapseHyphens(_)
\* re.sub(r"-{2,}", "-", s)
CollapseHyphens(s) ==
    IF Len(s) < 2 THEN s
    ELSE IF s[1] = "-" /\ s[2] = "-" THEN CollapseHyphens(Tail(s))
    ELSE <<s[1]>> \o CollapseHyphens(Tail(s))

\* s.strip("-")
StripHyphens(s) ==
    LET keep == {i \in 1..Len(s) : s[i] # "-"}
    IN  IF keep = {} THEN <<>>
        ELSE SubSeq(s, CHOOSE i \in keep : \A j \in keep : i <= j,
                       CHOOSE i \in keep : \A j \in keep : j <= i)

\* safe_name(name, max_len=90)
safe_name(name) ==
    LET a == SpacesToHyphen(strip(name))
        b == StripHyphens(CollapseHyphens(SelectSeq(a, IsNameChar)))
        c == IF b = <<>> THEN <<"m", "e", "m", "b", "e", "r">> ELSE b
    IN  lower(SubSeq(c, 1, Min(Len(c), SAFE_NAME_MAX)))

\* the display names members of the voice channel may carry
DisplayNames == {<<"D">>, <<"d">>, <<"d", "!">>, <<"!">>, <<"d", " ", "k">>, <<"k">>}

\* the members with administrator or manage-channels permission
Admins == {u \in Members : u = MaxMembers}

is_admin(member) == member \in Admins

\* VCSetupView._can_use
CanUse(member) == member = vs.setup_owner_id \/ is_admin(member)

\* create_or_update_text_channel: the text channels of the category afterwards;
\* a channel is its topic owner and the members its overwrites let view and send
create_or_update_text_channel(channels, name, ow, owner) ==
    Put(channels, name, [owner |-> owner, allowed |-> ow])

RECURSIVE IndividualLoop(_, _, _)
\* the loop "for m in members" of create_individual
IndividualLoop(ms, user, acc) ==
    IF ms = <<>> THEN acc
    ELSE LET m == Head(ms)
             ch_name == safe_name(vs.display[m])
             existed == ch_name \in DOMAIN acc.channels
         IN  IndividualLoop(Tail(ms), user,
                 [channels |-> create_or_update_text_channel(acc.channels, ch_name, {m, user}, m),
                  created |-> IF existed THEN acc.created ELSE acc.created + 1,
                  updated |-> IF existed THEN acc.updated + 1 ELSE acc.updated])

VsIdle == UNCHANGED dice_vars /\ UNCHANGED <<db, guild, tasks, views, reply, ops, sc>>

\* the individual-channel button pressed by user
create_individual(user) ==
    /\ vs' = IF ~CanUse(user) THEN [vs EXCEPT !.op = "create_individual", !.user = user, !.msg = "not_allowed",
                                              !.created = 0, !.updated = 0]
             ELSE IF vs.members = <<>>
                  THEN [vs EXCEPT !.op = "create_individual", !.user = user, !.msg = "no_members",
                                  !.created = 0, !.updated = 0]
             ELSE LET r == IndividualLoop(vs.members, user, [channels |-> vs.channels, created |-> 0, updated |-> 0])
                  IN  [vs EXCEPT !.op = "create_individual", !.user = user, !.msg = "done",
                                 !.channels = r.channels, !.created = r.created, !.updated = r.updated]
    /\ VsIdle

\* the lists of distinct members: the non-bot members of the voice channel
MemberLists == {s \in UNION {[1..n -> Members] : n \in 0..MaxMembers} : \A i, j \in 1..Len(s) : i # j => s[i] # s[j]}

\* !setup by gm_id has posted the panel
InitVC ==
    /\ DiceIdle
    /\ db = <<>> /\ guild = <<>> /\ tasks = <<>> /\ views = <<>> /\ reply = <<>> /\ ops = 0 /\ sc = <<>>
    /\ \E ms \in MemberLists, names \in [Members -> DisplayNames] :
         vs = [setup_owner_id |-> gm_id, members |-> ms, display |-> names, channels |-> <<>>,
               op |-> "setup", user |-> gm_id, msg |-> "", created |-> 0, updated |-> 0]

NextVC == \E user \in Members : create_individual(user)

SpecVC == InitVC /\ [][NextVC]_vars

\* C28: after the individual-channel button has completed, every member of
\* the voice channel has a channel dedicated to them (its topic names them as
\* owner) on which they may view and send, and created + updated equals the
\* number of members.
C28_OneChannelPerMember ==
    (vs # <<>> /\ vs.op = "create_individual" /\ vs.msg = "done")
        => /\ \A i \in 1..Len(vs.members) :
                \E n \in DOMAIN vs.channels :
                    vs.channels[n].owner = vs.members[i] /\ vs.members[i] \in vs.channels[n].allowed
           /\ vs.created + vs.updated = Len(vs.members)

(***************************************************************************)
(* cogs/ho_select.py: PC (HO) selection, spectators, archive and deletion  *)
(*                                                                         *)
(* The model starts after /setup has run in a voice channel that lies in   *)
(* a category, so every channel of the session is created in that          *)
(* category and the only category the bot creates is the archive category. *)
(* The GM stays in the guild; other members may leave.  A handler is       *)
(* split where it awaits the Discord API for the first time after reading  *)
(* the session (interaction.response.defer): the steps of other handlers   *)
(* may come in between, and the handler goes on with the copy of the       *)
(* session it loaded.  A ConfirmView holds the copy loaded by the button   *)
(* that created it.                                                        *)
(***************************************************************************)
\* pc_count of /setup: the session has PC1..PC<PcCount>
PcCount == 2

\* position of the anchor voice channel in its category
AnchorPosition == 1

\* number of interactions (button presses, selections, commands, departures)
MaxOps == 3

\* number of confirmation views
MaxViews == 2

\* make_pc_hos(pc_count), a PC written as its number
ho_options == 1..PcCount

\* build_ho_nick(member, ho): "<ho>@<member.name>"; <<0, m>> is the nickname
\* the member chose for themselves
build_ho_nick(member, ho) == <<ho, member>>

\* a session id that get_session does not find
NoSession ==
    [exists |-> FALSE, gm_id |-> gm_id, archived |-> FALSE, ho_taken |-> <<>>, ho_assignments |-> <<>>,
     original_nicks |-> <<>>, spectators |-> {}, ho_personal_channels |-> <<>>,
     spectator_channels |-> <<>>, participants |-> {}, shared_channel_id |-> 0,
     archive_category_id |-> 0]

\* send_messages=(not archived) of a member that may view
PermOf(archived) == IF archived THEN "view" ELSE "send"

\* the overwrites of the members: "send" (view and send) or "view" (view only)
make_personal_overwrites(g, player, s, archived) ==
    LET base == Put(Put(<<>>, s.gm_id, "send"), player, PermOf(archived))
        specs == s.spectators \cap g.present
    IN  [m \in (DOMAIN base) \cup specs |-> IF m \in specs THEN "view" ELSE base[m]]

make_spectator_overwrites(s, spectator, archived) ==
    Put(Put(<<>>, s.gm_id, "send"), spectator, PermOf(archived))

make_shared_overwrites(g, s, member_ids, archived) ==
    LET ms == member_ids \cap g.present
    IN  [m \in {s.gm_id} \cup ms |-> IF m \in ms THEN PermOf(archived) ELSE "send"]

pos_shared(base) == base

\* base + 1 + hos.index(ho)
pos_personal(base, ho) == base + 1 + (ho - 1)

\* base + 1 + pc_count + index of the spectator in sorted(set(spectators))
pos_spectator(base, s, uid) ==
    base + 1 + PcCount
         + (IF uid \in s.spectators THEN Cardinality({x \in s.spectators : x < uid})
            ELSE Cardinality(s.spectators))

\* a local session and the guild, threaded through the calls of a handler
St(s, g) == [s |-> s, g |-> g]

\* guild.get_channel(cid) is a text channel
ChannelExists(g, cid) == cid \in DOMAIN g.channels

\* create_text_channel: the guild with the new channel g.next_id
NewChannel(g, kind, owner, pos, ow) ==
    [g EXCEPT !.channels = Put(@, g.next_id, [kind |-> kind, owner |-> owner, cat |-> 0, pos |-> pos, ow |-> ow]),
              !.next_id = @ + 1]

\* member.edit(nick=nick); a member that has left cannot be edited
try_set_nickname(g, member, nick) ==
    IF member \in g.present THEN [g EXCEPT !.nick[member] = nick] ELSE g

ensure_shared_channel_has_member(st, member) ==
    LET s == st.s
        g == st.g
    IN  IF s.shared_channel_id = 0 \/ ~ChannelExists(g, s.shared_channel_id) \/ member \in s.participants
        THEN st
        ELSE St([s EXCEPT !.participants = @ \cup {member}],
                [g EXCEPT !.channels[s.shared_channel_id].ow = Put(@, member, PermOf(s.archived))])

create_or_update_personal_ch(st, member, ho) ==
    LET s == st.s
        g == st.g
        pos == pos_personal(AnchorPosition, ho)
        ow == make_personal_overwrites(g, member, s, s.archived)
    IN  IF member \in DOMAIN s.ho_personal_channels /\ ChannelExists(g, s.ho_personal_channels[member])
        THEN St(s, [g EXCEPT !.channels[s.ho_personal_channels[member]] = [@ EXCEPT !.cat = 0, !.pos = pos, !.ow = ow]])
        ELSE St([s EXCEPT !.ho_personal_channels = Put(@, member, g.next_id)],
                NewChannel(g, "personal", member, pos, ow))

create_or_update_spectator_ch(st, member) ==
    LET s == st.s
        g == st.g
        pos == pos_spectator(AnchorPosition, s, member)
        ow == make_spectator_overwrites(s, member, s.archived)
    IN  IF member \in DOMAIN s.spectator_channels /\ ChannelExists(g, s.spectator_channels[member])
        THEN St(s, [g EXCEPT !.channels[s.spectator_channels[member]] = [@ EXCEPT !.cat = 0, !.pos = pos, !.ow = ow]])
        ELSE St([s EXCEPT !.spectator_channels = Put(@, member, g.next_id)],
                NewChannel(g, "spectator", member, pos, ow))

apply_spectator_to_all_personals(st, spectator, enable) ==
    LET s == st.s
        g == st.g
        cids == Values(s.ho_personal_channels) \cap DOMAIN g.channels
    IN  St(s, [g EXCEPT !.channels =
                 [cid \in DOMAIN @ |->
                    IF cid \notin cids THEN @[cid]
                    ELSE [@[cid] EXCEPT !.ow = IF enable THEN Put(@, spectator, "view") ELSE Del(@, spectator)]]])

restore_all_nicks(g, s) ==
    [g EXCEPT !.nick = [m \in DOMAIN @ |->
                          IF m \in (DOMAIN s.original_nicks) \cap g.present THEN s.original_nicks[m] ELSE @[m]]]

\* ensure_archive_category: the stored category if it still exists, else a new one
ensure_archive_category(st) ==
    IF st.s.archive_category_id # 0 /\ st.s.archive_category_id \in st.g.cats THEN st
    ELSE St([st.s EXCEPT !.archive_category_id = st.g.next_id],
            [st.g EXCEPT !.cats = @ \cup {st.g.next_id}, !.next_id = @ + 1])

\* the member whose channel cid is in the map, if that member is in the guild
OwnerIn(g, map, cid) == {u \in (DOMAIN map) \cap g.present : map[u] = cid}

archive_session(st0) ==
    LET st == ensure_archive_category(st0)
        s == [st.s EXCEPT !.archived = TRUE]
        g == st.g
        cat == s.archive_category_id
    IN  St(s, [g EXCEPT !.channels =
                 [cid \in DOMAIN @ |->
                    IF cid = s.shared_channel_id
                    THEN [@[cid] EXCEPT !.cat = cat, !.ow = make_shared_overwrites(g, s, s.participants, TRUE)]
                    ELSE IF OwnerIn(g, s.ho_personal_channels, cid) # {}
                    THEN [@[cid] EXCEPT !.cat = cat,
                            !.ow = make_personal_overwrites(g, CHOOSE u \in OwnerIn(g, s.ho_personal_channels, cid) : TRUE, s, TRUE)]
                    ELSE IF OwnerIn(g, s.spectator_channels, cid) # {}
                    THEN [@[cid] EXCEPT !.cat = cat,
                            !.ow = make_spectator_overwrites(s, CHOOSE u \in OwnerIn(g, s.spectator_channels, cid) : TRUE, TRUE)]
                    ELSE @[cid]]])

\* delete_session_everything: the guild afterwards and stats["failed"];
\* refused: Discord refuses the deletion of the shared channel
delete_session_everything(g, s, refused) ==
    LET kept == IF refused THEN {s.shared_channel_id} ELSE {}
        stored == {s.shared_channel_id} \cup Values(s.ho_personal_channels) \cup Values(s.spectator_channels)
        cat == IF s.archive_category_id # 0 /\ s.archive_category_id \in g.cats THEN {s.archive_category_id} ELSE {}
        gone == {cid \in DOMAIN g.channels : cid \in stored \/ g.channels[cid].cat \in cat} \ kept
    IN  [g |-> [g EXCEPT !.channels = [cid \in (DOMAIN @) \ gone |-> @[cid]],
                         !.cats = @ \ cat,
                         !.panel = @ /\ ~ChannelExists(g, s.shared_channel_id)],
         failed |-> IF refused /\ ChannelExists(g, s.shared_channel_id) THEN 1 ELSE 0]

HoIdle == UNCHANGED dice_vars /\ UNCHANGED <<sc, vs>>

\* the answer of handler o to user
Answer(o, user, msg, failed) == [op |-> o, user |-> user, msg |-> msg, failed |-> failed]

\* an interaction of a member of the guild arrives
Arrive(user) == ops < MaxOps /\ user \in guild.present /\ ops' = ops + 1

\* mutant: the archived flag is not looked at
IsArchived_never(s) == FALSE

\* if s.get("archived")
IsArchived(s) == s.archived

\* mutant: every member may archive and delete
Authorised_all(s, user) == TRUE

\* not (interaction.user.id != s.get("gm_id") and not is_admin(interaction.user))
Authorised(s, user) == user = s.gm_id \/ is_admin(user)

\* HOSelect.callback up to its first await: the answer, "deferred" to go on
callback_check(s, user, ho) ==
    IF ~s.exists THEN "not_found"
    ELSE IF IsArchived(s) THEN "archived"
    ELSE IF ho \in DOMAIN s.ho_taken /\ s.ho_taken[ho] # user THEN "taken"
    ELSE "deferred"

\* HOSelect.callback: a member picks ho in the select menu
callback(user, ho) ==
    /\ Arrive(user)
    /\ user \notin DOMAIN tasks
    /\ reply' = Answer("select", user, callback_check(db, user, ho), 0)
    /\ tasks' = IF callback_check(db, user, ho) = "deferred"
                THEN Put(tasks, user, [kind |-> "select", ho |-> ho, nick |-> guild.nick[user], s |-> db])
                ELSE tasks
    /\ UNCHANGED <<db, guild, views>>
    /\ HoIdle

\* the session after "assignments[uid] = ho; taken[ho] = uid" and the save of
\* the original nickname
Assigned(s, user, ho, nick) ==
    LET old == IF user \in DOMAIN s.ho_assignments THEN {s.ho_assignments[user]} ELSE {}
        freed == {o \in old : o \in DOMAIN s.ho_taken /\ s.ho_taken[o] = user}
        taken == [h \in (DOMAIN s.ho_taken) \ freed |-> s.ho_taken[h]]
    IN  [s EXCEPT !.ho_assignments = Put(@, user, ho),
                  !.ho_taken = Put(taken, ho, user),
                  !.original_nicks = IF user \in DOMAIN @ THEN @ ELSE Put(@, user, nick)]

\* HOSelect.callback after interaction.response.defer
callback_resume(user) ==
    /\ user \in DOMAIN tasks
    /\ tasks[user].kind = "select"
    /\ LET t == tasks[user]
           s == Assigned(t.s, user, t.ho, t.nick)
           g == try_set_nickname(guild, user, Some(build_ho_nick(user, t.ho)))
           st == create_or_update_personal_ch(ensure_shared_channel_has_member(St(s, g), user), user, t.ho)
       IN  /\ db' = st.s
           /\ guild' = st.g
    /\ tasks' = Del(tasks, user)
    /\ reply' = Answer("select", user, "selected", 0)
    /\ UNCHANGED <<views, ops>>
    /\ HoIdle

\* HOSelectView.spectate up to its first await
spectate_check(s) ==
    IF ~s.exists THEN "not_found"
    ELSE IF IsArchived(s) THEN "archived"
    ELSE "deferred"

\* HOSelectView.spectate: a member presses the spectate toggle
spectate(user) ==
    /\ Arrive(user)
    /\ user \notin DOMAIN tasks
    /\ reply' = Answer("spectate", user, spectate_check(db), 0)
    /\ tasks' = IF spectate_check(db) = "deferred"
                THEN Put(tasks, user, [kind |-> "spectate", ho |-> 0, nick |-> guild.nick[user], s |-> db])
                ELSE tasks
    /\ UNCHANGED <<db, guild, views>>
    /\ HoIdle

\* HOSelectView.spectate after interaction.response.defer
spectate_resume(user) ==
    /\ user \in DOMAIN tasks
    /\ tasks[user].kind = "spectate"
    /\ LET s == tasks[user].s
           enable == user \notin s.spectators
           st == IF enable
                 THEN create_or_update_spectator_ch(St([s EXCEPT !.spectators = @ \cup {user}], guild), user)
                 ELSE St([s EXCEPT !.spectators = @ \ {user}], guild)
           st2 == apply_spectator_to_all_personals(st, user, enable)
       IN  /\ db' = st2.s
           /\ guild' = st2.g
           /\ reply' = Answer("spectate", user, IF enable THEN "spectate_on" ELSE "spectate_off", 0)
    /\ tasks' = Del(tasks, user)
    /\ UNCHANGED <<views, ops>>
    /\ HoIdle

\* the archive and delete buttons up to the confirmation view
press_check(s, user) ==
    IF ~s.exists THEN "not_found"
    ELSE IF ~Authorised(s, user) THEN "refused"
    ELSE "confirm"

\* ConfirmView(_do, ...): _do closes over the session the button loaded
ConfirmView(kind, user, s) ==
    [kind |-> kind, user |-> user, s |-> s, confirmed |-> FALSE, stopped |-> FALSE,
     pending |-> 0, runs |-> 0, cancelled |-> FALSE]

Press(kind, user) ==
    /\ Arrive(user)
    /\ press_check(db, user) = "confirm" => Len(views) < MaxViews
    /\ reply' = Answer(kind, user, press_check(db, user), 0)
    /\ views' = IF press_check(db, user) = "confirm" THEN Append(views, ConfirmView(kind, user, db)) ELSE views
    /\ UNCHANGED <<db, guild, tasks>>
    /\ HoIdle

\* HOSelectView.archive
archive(user) == Press("archive", user)

\* HOSelectView.delete
delete(user) == Press("delete", user)

\* mutant: the view does not remember that it was confirmed
AlreadyConfirmed_never(v) == FALSE

\* if self._confirmed
AlreadyConfirmed(v) == v.confirmed

\* ConfirmView.confirm up to the first await of _do; a stopped view receives
\* no interaction
confirm(i) ==
    /\ i \in 1..Len(views)
    /\ ~views[i].stopped
    /\ Arrive(views[i].user)
    /\ reply' = Answer("confirm", views[i].user, IF AlreadyConfirmed(views[i]) THEN "already" ELSE "deferred", 0)
    /\ views' = IF AlreadyConfirmed(views[i]) THEN views
                ELSE [views EXCEPT ![i].confirmed = TRUE, ![i].pending = @ + 1]
    /\ UNCHANGED <<db, guild, tasks>>
    /\ HoIdle

\* _do of HOSelectView.archive / HOSelectView.delete after its defer, then self.stop()
confirm_resume(i) ==
    /\ i \in 1..Len(views)
    /\ views[i].pending > 0
    /\ LET v == views[i]
           g == restore_all_nicks(guild, v.s)
       IN  IF v.kind = "archive"
           THEN LET st == archive_session(St(v.s, g))
                IN  /\ db' = st.s
                    /\ guild' = st.g
                    /\ reply' = Answer("archive", v.user, "done", 0)
           ELSE \E refused \in BOOLEAN :
                    LET r == delete_session_everything(g, v.s, refused)
                    IN  /\ db' = NoSession
                        /\ guild' = r.g
                        /\ reply' = Answer("delete", v.user, "done", r.failed)
    /\ views' = [views EXCEPT ![i].pending = @ - 1, ![i].runs = @ + 1, ![i].stopped = TRUE]
    /\ UNCHANGED <<tasks, ops>>
    /\ HoIdle

\* ConfirmView.cancel
cancel(i) ==
    /\ i \in 1..Len(views)
    /\ ~views[i].stopped
    /\ Arrive(views[i].user)
    /\ reply' = Answer("cancel", views[i].user, "cancelled", 0)
    /\ views' = [views EXCEPT ![i].stopped = TRUE, ![i].cancelled = ~views[i].confirmed]
    /\ UNCHANGED <<db, guild, tasks>>
    /\ HoIdle

\* find_session_by_name(name, requester): the session of that name, if any
find_session_by_name(s, user) == IF s.exists /\ (s.gm_id = user \/ is_admin(user)) THEN Some(s) ELSE None

\* /sessionend name
sessionend(user) ==
    /\ Arrive(user)
    /\ IF find_session_by_name(db, user) = None \/ ~Authorised(db, user)
       THEN /\ reply' = Answer("sessionend", user, IF find_session_by_name(db, user) = None THEN "not_found" ELSE "refused", 0)
            /\ UNCHANGED <<db, guild>>
       ELSE \E refused \in BOOLEAN :
                LET r == delete_session_everything(restore_all_nicks(guild, db), db, refused)
                IN  /\ db' = NoSession
                    /\ guild' = r.g
                    /\ reply' = Answer("sessionend", user, "done", r.failed)
    /\ UNCHANGED <<tasks, views>>
    /\ HoIdle

\* a member other than the GM leaves the guild
Leave(user) ==
    /\ ops < MaxOps
    /\ user \in guild.present \ {db.gm_id}
    /\ ops' = ops + 1
    /\ guild' = [guild EXCEPT !.present = @ \ {user}]
    /\ reply' = Answer("leave", user, "left", 0)
    /\ UNCHANGED <<db, tasks, views>>
    /\ HoIdle

\* the members in the voice channel when /setup ran: all but the last
vc_members == {m \in Members : m < MaxMembers}

\* /setup by gm_id has answered: the session is stored, the shared channel
\* with the panel exists
InitHO ==
    /\ DiceIdle
    /\ sc = <<>> /\ vs = <<>>
    /\ tasks = <<>> /\ views = <<>> /\ ops = 0
    /\ reply = Answer("setup", gm_id, "done", 0)
    /\ /\ db = [NoSession EXCEPT !.exists = TRUE, !.participants = vc_members \cup {gm_id}, !.shared_channel_id = 1]
         /\ guild = [present |-> Members,
                     nick |-> [m \in Members |-> IF m % 2 = 0 THEN Some(build_ho_nick(m, 0)) ELSE None],
                     channels |-> Put(<<>>, 1, [kind |-> "shared", owner |-> gm_id, cat |-> 0,
                                                pos |-> pos_shared(AnchorPosition),
                                                ow |-> make_shared_overwrites([present |-> Members], NoSession,
                                                                              vc_members \cup {gm_id}, FALSE)]),
                     cats |-> {}, next_id |-> 2, panel |-> TRUE]

Select == \E user \in Members, ho \in ho_options : callback(user, ho)

SelectResume == \E user \in Members : callback_resume(user)

Spectate == \E user \in Members : spectate(user)

SpectateResume == \E user \in Members : spectate_resume(user)

ArchiveButton == \E user \in Members : archive(user)

DeleteButton == \E user \in Members : delete(user)

Confirm == \E i \in 1..MaxViews : confirm(i)

ConfirmResume == \E i \in 1..MaxViews : confirm_resume(i)

Cancel == \E i \in 1..MaxViews : cancel(i)

SessionEnd == \E user \in Members : sessionend(user)

MemberLeaves == \E user \in Members : Leave(user)

NextHO ==
    \/ Select \/ SelectResume \/ Spectate \/ SpectateResume
    \/ ArchiveButton \/ DeleteButton \/ Confirm \/ ConfirmResume \/ Cancel
    \/ SessionEnd \/ MemberLeaves

SpecHO == InitHO /\ [][NextHO]_vars

(***************************************************************************)
(* Claims on cogs/ho_select.py                                             *)
(***************************************************************************)
\* ho_taken and ho_assignments of s are inverse to each other
Inverse(s) ==
    /\ \A ho \in DOMAIN s.ho_taken :
         s.ho_taken[ho] \in DOMAIN s.ho_assignments /\ s.ho_assignments[s.ho_taken[ho]] = ho
    /\ \A u \in DOMAIN s.ho_assignments :
         s.ho_assignments[u] \in DOMAIN s.ho_taken /\ s.ho_taken[s.ho_assignments[u]] = u

\* C21: HO selection is exclusive: in the stored session ho_taken and
\* ho_assignments are always inverse to each other, and no step gives a PC
\* that the stored session records as taken by one member to another member
\* (a selection of a PC taken by someone else is refused and changes nothing).
C21_ExclusiveSelection ==
    [][/\ Inverse(db')
       /\ \A ho \in (DOMAIN db.ho_taken) \cap (DOMAIN db'.ho_taken) : db'.ho_taken[ho] = db.ho_taken[ho]]_vars

\* C22: when /sessionend or the confirmed full delete has finished and
\* reported no failure, no channel and no category of the session and no
\* panel message is left, and the session is gone from the store.
C22_DeleteRemovesEverything ==
    (reply # <<>> /\ reply.op \in {"sessionend", "delete"} /\ reply.msg = "done" /\ reply.failed = 0)
        => /\ DOMAIN guild.channels = {}
           /\ guild.cats = {}
           /\ ~guild.panel
           /\ ~db.exists

\* the requester is neither the GM of the stored session nor an administrator
Outsider(user) == user # db.gm_id /\ user \notin Admins

\* C23: a press of the archive or delete button or a /sessionend by a member
\* who is neither the GM nor an administrator is refused and changes no
\* channel, nickname, stored field, view or pending callback; every
\* confirmation view belongs to the GM or an administrator, and so does every
\* archive, delete and /sessionend that ran.
C23_OnlyGmOrAdmin ==
    [][/\ \A user \in Members :
            (db.exists /\ Outsider(user) /\ (archive(user) \/ delete(user) \/ sessionend(user)))
                => (UNCHANGED <<db, guild, views, tasks>> /\ reply'.msg \in {"refused", "not_found"})
       /\ \A i \in 1..Len(views') : db.exists => ~Outsider(views'[i].user)
       /\ (db.exists /\ (ConfirmResume \/ SessionEnd) /\ reply'.msg = "done") => ~Outsider(reply'.user)]_vars

\* a member without permission pressed the archive button and was refused
C23_Witness ==
    /\ reply # <<>>
    /\ reply.op = "archive" /\ reply.msg = "refused"
    /\ reply.user # gm_id /\ reply.user \notin Admins
    /\ db.exists /\ ~db.archived /\ views = <<>>

\* the members of the stored session: participants, players and spectators
SessionMembers == db.participants \cup (DOMAIN db.ho_assignments) \cup db.spectators

\* C24: when the archive has completed, the session is marked archived and
\* on every channel of the session every participant, player and spectator
\* with an overwrite may view but not send.
C24_ArchiveViewOnly ==
    (reply # <<>> /\ reply.op = "archive" /\ reply.msg = "done")
        => /\ db.archived
           /\ \A cid \in DOMAIN guild.channels :
                \A m \in SessionMembers \cap DOMAIN guild.channels[cid].ow :
                    guild.channels[cid].ow[m] = "view"

\* C25: an HO selection or a spectate toggle that finds the stored session
\* archived answers that it is archived, starts nothing, and changes neither
\* the stored session (ho_taken, ho_assignments, spectators, original_nicks)
\* nor a nickname nor a channel.
C25_ArchivedRefuses ==
    [][(db.exists /\ db.archived /\ (Select \/ Spectate))
          => (UNCHANGED <<db, guild, tasks>> /\ reply'.msg = "archived")]_vars

\* a member picked a PC of the archived session and was refused
C25_Witness ==
    /\ reply # <<>>
    /\ reply.op = "select" /\ reply.msg = "archived"
    /\ db.exists /\ db.archived
    /\ reply.user \notin DOMAIN tasks

\* the channels in the category of the anchor voice channel
Stacked == {cid \in DOMAIN guild.channels : guild.channels[cid].cat = 0}

KindRank(kind) == CASE kind = "shared" -> 0 [] kind = "personal" -> 1 [] OTHER -> 2

\* C26: in the category of the anchor voice channel distinct channels have
\* distinct positions, the shared channel comes before every personal
\* channel, personal channels come in PC order, and every personal channel
\* comes before every spectator channel.
C26_StackingOrder ==
    \A c1, c2 \in Stacked :
        LET a == guild.channels[c1]
            b == guild.channels[c2]
        IN  /\ c1 # c2 => a.pos # b.pos
            /\ KindRank(a.kind) < KindRank(b.kind) => a.pos < b.pos
            /\ (/\ a.kind = "personal" /\ b.kind = "personal"
                /\ a.owner \in DOMAIN db.ho_assignments /\ b.owner \in DOMAIN db.ho_assignments
                /\ db.ho_assignments[a.owner] < db.ho_assignments[b.owner]) => a.pos < b.pos

\* C29: a nickname recorded in original_nicks is never replaced by another
\* value, and when an archive, a full delete or a /sessionend has run, every
\* member recorded in the stored original_nicks who is still in the guild
\* carries exactly the recorded nickname.
C29_NicknameRestored ==
    [][/\ \A u \in (DOMAIN db.original_nicks) \cap (DOMAIN db'.original_nicks) :
            db'.original_nicks[u] = db.original_nicks[u]
       /\ ((ConfirmResume \/ SessionEnd) /\ reply'.msg = "done")
            => \A u \in (DOMAIN db.original_nicks) \cap guild'.present :
                    guild'.nick[u] = db.original_nicks[u]]_vars

MaxBuildOps == 3

\* category_id, channel_all_id, channel_gm_id, individual_channels as
\* /session_create stores them
NoChannels ==
    [category_id |-> None, channel_all_id |-> None, channel_gm_id |-> None,
     individual_channels |-> <<>>]

\* s.get(key) and guild.get_channel(s[key]): the id is stored and the channel exists
Alive(g, oid) == oid # None /\ oid[1] \in DOMAIN g.channels

\* guild.create_category / category.create_text_channel
create_text_channel(g, kind, owner, allowed) ==
    [g EXCEPT !.channels = Put(@, g.next_id,
                               [kind |-> kind, owner |-> owner, allowed |-> allowed, posts |-> 0]),
              !.next_id = @ + 1]

\* the members of the players list that guild.get_member finds
PresentPlayers(g, players) == {players[i] : i \in 1..Len(players)} \cap g.present

\* the loop over players: one individual channel per player that has none alive
RECURSIVE IndividualChannels(_, _, _, _, _)
IndividualChannels(players, i, gm, indi_map, g) ==
    IF i > Len(players) THEN [indi_map |-> indi_map, g |-> g]
    ELSE LET uid == players[i]
         IN  IF uid \in DOMAIN indi_map /\ indi_map[uid] \in DOMAIN g.channels
             THEN IndividualChannels(players, i + 1, gm, indi_map, g)
             ELSE IF uid \notin g.present
             THEN IndividualChannels(players, i + 1, gm, indi_map, g)
             ELSE IndividualChannels(players, i + 1, gm, Put(indi_map, uid, g.next_id),
                                     create_text_channel(g, "individual", uid, {gm, uid}))

\* ch_all.send(...): the announcement
send(g, cid) == [g EXCEPT !.channels[cid].posts = @ + 1]

\* build_channels: the answer, the saved build fields and the guild
build_channels(players, gm, s, g) ==
    IF players = <<>> THEN [msg |-> "no_players", s |-> s, g |-> g]
    ELSE IF gm \notin g.present THEN [msg |-> "gm_missing", s |-> s, g |-> g]
    ELSE
    LET reuse == Alive(g, s.category_id) /\ g.channels[s.category_id[1]].kind = "category"
        g1 == IF reuse THEN g ELSE create_text_channel(g, "category", gm, {})
        s1 == IF reuse THEN s ELSE [s EXCEPT !.category_id = Some(g.next_id)]
        has_all == Alive(g1, s1.channel_all_id)
        g2 == IF has_all THEN g1
              ELSE create_text_channel(g1, "all", gm, {gm} \cup PresentPlayers(g1, players))
        s2 == IF has_all THEN s1 ELSE [s1 EXCEPT !.channel_all_id = Some(g1.next_id)]
        has_gm == Alive(g2, s2.channel_gm_id)
        g3 == IF has_gm THEN g2 ELSE create_text_channel(g2, "gm", gm, {gm})
        s3 == IF has_gm THEN s2 ELSE [s2 EXCEPT !.channel_gm_id = Some(g2.next_id)]
        r  == IndividualChannels(players, 1, gm, s3.individual_channels, g3)
        s4 == [s3 EXCEPT !.individual_channels = r.indi_map]
        g4 == IF Alive(r.g, s4.channel_all_id) /\ r.g.channels[s4.channel_all_id[1]].kind # "category"
              THEN send(r.g, s4.channel_all_id[1]) ELSE r.g
    IN  [msg |-> "done", s |-> s4, g |-> g4]

BuildIdle == UNCHANGED dice_vars /\ UNCHANGED <<tasks, views, sc, vs>>

\* the build button
build(u) ==
    /\ ops < MaxBuildOps
    /\ ops' = ops + 1
    /\ IF u # sc.gm_id
       THEN /\ reply' = [op |-> "build", user |-> u, msg |-> MSG_GM_ONLY]
            /\ UNCHANGED <<db, guild>>
       ELSE LET r == build_channels(sc.players, sc.gm_id, db, guild)
            IN  /\ reply' = [op |-> "build", user |-> u, msg |-> r.msg]
                /\ db' = r.s
                /\ guild' = r.g
    /\ BuildIdle

\* a moderator of the guild deletes a channel of the session
channel_deleted(cid) ==
    /\ ops < MaxBuildOps
    /\ ops' = ops + 1
    /\ cid \in DOMAIN guild.channels
    /\ guild' = [guild EXCEPT !.channels = Del(@, cid)]
    /\ UNCHANGED <<db, reply>>
    /\ BuildIdle

\* the state after /session_create
InitBuild ==
    /\ DiceIdle
    /\ tasks = <<>> /\ views = <<>> /\ vs = <<>> /\ ops = 0
    /\ db = NoChannels
    /\ guild = [channels |-> <<>>, next_id |-> 1, present |-> Members]
    /\ reply = [op |-> "session_create", user |-> gm_id, msg |-> ""]
    /\ sc = [players |-> <<>>, locked |-> FALSE, gm_id |-> gm_id,
             op |-> "session_create", user |-> gm_id, member |-> gm_id, ok |-> TRUE, msg |-> ""]

BuildButton == \E u \in Members : build(u)

ChannelDeleted == \E cid \in DOMAIN guild.channels : channel_deleted(cid)

\* players join and leave between builds (these handlers leave db, guild,
\* reply and ops as they are)
NextBuild ==
    \/ JoinButton
    \/ LeaveButton
    \/ BuildButton
    \/ ChannelDeleted

SpecBuild == InitBuild /\ [][NextBuild]_vars

\* C31: build_channels posts the announcement in the session's all-players
\* channel only at the build that creates the channels: the all-players
\* channel of a built session holds exactly one announcement, however often
\* the GM presses the build button afterwards, and no all-players channel
\* ever holds more than one.
C31_AnnouncedOnce ==
    /\ \A cid \in DOMAIN guild.channels :
            guild.channels[cid].kind = "all" => guild.channels[cid].posts <= 1
    /\ Alive(guild, db.channel_all_id) => guild.channels[db.channel_all_id[1]].posts = 1

====
